---- MODULE Spec2Model ----
(***************************************************************************)
(* Edge Impulse converter plugin: the conversion + signing + encoding      *)
(* pipeline of app/services/converter.py as driven by the HTTP handler     *)
(* convert_and_upload of app/api/converter_routes.py.                      *)
(*                                                                         *)
(* Python values are modelled as follows.                                  *)
(*   str            a sequence of one-character strings                    *)
(*   bytes          a sequence of integers 0..255                          *)
(*   int            an integer                                             *)
(*   float          an integer number of tenths (15 is 1.5, -98 is -9.8)   *)
(*   Optional[T]    <<>> for None, <<x>> for a value x                     *)
(*   json-able tree a node [t, s, n, c] (see PyStr .. PyDict); a dict      *)
(*                  keeps its items in insertion order as <<key, node>>    *)
(***************************************************************************)
EXTENDS Integers, Sequences, FiniteSets, TLC

(***************************************************************************)
(* Bounds of the model.                                                    *)
(***************************************************************************)
\* longest sensors list of a raw request, and widest row of values
MaxSensors == 2
\* largest number of rows of values of a raw request
MaxRows == 2
\* number of times the wall clock advances in one behaviour
MaxTicks == 1
\* number of calls of ingest_data in one behaviour
MaxTasks == 2
\* longest history of upload_sample calls kept for one task
MaxSamples == 2

MaxCalls == 4

(***************************************************************************)
(* Characters, str and bytes.                                              *)
(***************************************************************************)
\* the printable ASCII characters, code points 32..126, in code point order
\* (code point 96 is held by a placeholder no str of the model contains)
Ascii ==
  << " ", "!", "\"", "#", "$", "%", "&", "'", "(", ")", "*", "+", ",", "-",
     ".", "/", "0", "1", "2", "3", "4", "5", "6", "7", "8", "9", ":", ";",
     "<", "=", ">", "?", "@", "A", "B", "C", "D", "E", "F", "G", "H", "I",
     "J", "K", "L", "M", "N", "O", "P", "Q", "R", "S", "T", "U", "V", "W",
     "X", "Y", "Z", "[", "\\", "]", "^", "_", "<grave>", "a", "b", "c", "d", "e",
     "f", "g", "h", "i", "j", "k", "l", "m", "n", "o", "p", "q", "r", "s",
     "t", "u", "v", "w", "x", "y", "z", "{", "|", "}", "~" >>

\* ord(c); the newline character is code point 10
Ord(c) == IF c = "\n" THEN 10
          ELSE 31 + (CHOOSE i \in 1..Len(Ascii) : Ascii[i] = c)

\* str.encode("utf-8") on ASCII text: one byte per character
EncodeUtf8(s) == <<>> \o [i \in 1..Len(s) |-> Ord(s[i])]

\* bytes.decode("utf-8") on ASCII bytes
DecodeUtf8(b) ==
  <<>> \o [i \in 1..Len(b) |-> IF b[i] = 10 THEN "\n" ELSE Ascii[b[i] - 31]]

\* a < b for two str: lexicographic by code point
RECURSIVE StrLess(_, _)
StrLess(a, b) ==
  IF b = <<>> THEN FALSE
  ELSE IF a = <<>> THEN TRUE
  ELSE IF Ord(Head(a)) # Ord(Head(b)) THEN Ord(Head(a)) < Ord(Head(b))
  ELSE StrLess(Tail(a), Tail(b))

\* c * n for a one-character str c
Repeat(c, n) == <<>> \o [i \in 1..n |-> c]

Digits == <<"0", "1", "2", "3", "4", "5", "6", "7", "8", "9">>

\* str(n) for n >= 0
RECURSIVE NatRepr(_)
NatRepr(n) == IF n < 10 THEN <<Digits[n + 1]>>
              ELSE NatRepr(n \div 10) \o <<Digits[(n % 10) + 1]>>

\* int.__repr__
IntRepr(n) == IF n < 0 THEN <<"-">> \o NatRepr(-n) ELSE NatRepr(n)

\* the floats: a finite float is a number of tenths between -FloatMax and
\* FloatMax; the three values beyond stand for inf, -inf and nan
FloatMax == 9999
Infinity == FloatMax + 1
NaN == FloatMax + 2

IsFinite(x) == -FloatMax <= x /\ x <= FloatMax

\* json's floatstr: float.__repr__ for a finite float of x tenths (always an
\* integer part, a point and a fraction, which is what tells a float from
\* an int on the wire), and with allow_nan, the default, the words NaN,
\* Infinity and -Infinity for the others
FloatRepr(x) ==
  LET a == IF x < 0 THEN -x ELSE x
  IN  IF x = NaN THEN <<"N", "a", "N">>
      ELSE IF a = Infinity
           THEN (IF x < 0 THEN <<"-">> ELSE <<>>)
                  \o <<"I", "n", "f", "i", "n", "i", "t", "y">>
      ELSE (IF x < 0 THEN <<"-">> ELSE <<>>)
             \o NatRepr(a \div 10) \o <<".">> \o <<Digits[(a % 10) + 1]>>

\* the value of a digit character
DigitVal(c) == (CHOOSE i \in 1..10 : Digits[i] = c) - 1

\* int(s) for a str of digits
RECURSIVE NatParse(_)
NatParse(s) == IF s = <<>> THEN 0
               ELSE NatParse(SubSeq(s, 1, Len(s) - 1)) * 10 + DigitVal(s[Len(s)])

(***************************************************************************)
(* JSON-able Python objects.                                               *)
(***************************************************************************)
PyStr(s)   == [t |-> "str",   s |-> s,    n |-> 0, c |-> <<>>]
PyInt(n)   == [t |-> "int",   s |-> <<>>, n |-> n, c |-> <<>>]
PyFloat(x) == [t |-> "float", s |-> <<>>, n |-> x, c |-> <<>>]
PyList(c)  == [t |-> "list",  s |-> <<>>, n |-> 0, c |-> c]
PyDict(kv) == [t |-> "dict",  s |-> <<>>, n |-> 0, c |-> kv]

\* the keys of a dict, in insertion order
DictKeys(d) == [i \in 1..Len(d.c) |-> d.c[i][1]]

HasKey(d, k) == \E i \in 1..Len(d.c) : d.c[i][1] = k

\* d[k]
DictGet(d, k) == d.c[CHOOSE i \in 1..Len(d.c) : d.c[i][1] = k][2]

\* d[k] = v: an existing key keeps its position, a new key goes last
DictSet(d, k, v) ==
  IF HasKey(d, k)
  THEN PyDict([i \in 1..Len(d.c) |-> IF d.c[i][1] = k THEN <<k, v>> ELSE d.c[i]])
  ELSE PyDict(Append(d.c, <<k, v>>))

\* sorted(items) by key, as json's sort_keys does: insertion sort
RECURSIVE InsertItem(_, _)
InsertItem(kv, sorted) ==
  IF sorted = <<>> THEN <<kv>>
  ELSE IF StrLess(kv[1], Head(sorted)[1]) THEN <<kv>> \o sorted
  ELSE <<Head(sorted)>> \o InsertItem(kv, Tail(sorted))

RECURSIVE SortItems(_)
SortItems(items) ==
  IF items = <<>> THEN <<>>
  ELSE InsertItem(items[Len(items)], SortItems(SubSeq(items, 1, Len(items) - 1)))

(***************************************************************************)
(* json.dumps and json.loads.                                              *)
(***************************************************************************)
\* json.dumps(..., separators=(",", ":"), sort_keys=True): the signing form
CompactSorted ==
  [indent |-> <<>>, item_separator |-> <<",">>, key_separator |-> <<":">>,
   sort_keys |-> TRUE]

\* json.dumps(..., indent=2): separators default to (",", ": "), keys stay
\* in insertion order
Indent2 ==
  [indent |-> <<2>>, item_separator |-> <<",">>, key_separator |-> <<":", " ">>,
   sort_keys |-> FALSE]

\* the line break and indentation json puts before an item at a nesting level
NewlineIndent(opt, level) ==
  IF opt.indent = <<>> THEN <<>>
  ELSE <<"\n">> \o Repeat(" ", opt.indent[1] * level)

\* a str as a JSON string; the characters of the model need no escape
JsonString(s) == <<"\"">> \o s \o <<"\"">>

RECURSIVE JsonEncode(_, _, _)
RECURSIVE JsonEncodeItems(_, _, _)
RECURSIVE JsonEncodeMembers(_, _, _)

\* the items of a list, each after the first preceded by the separator
JsonEncodeItems(items, opt, level) ==
  IF items = <<>> THEN <<>>
  ELSE JsonEncode(Head(items), opt, level)
         \o (IF Tail(items) = <<>> THEN <<>>
             ELSE opt.item_separator \o NewlineIndent(opt, level)
                    \o JsonEncodeItems(Tail(items), opt, level))

\* the members of a dict: key, key separator, value
JsonEncodeMembers(kv, opt, level) ==
  IF kv = <<>> THEN <<>>
  ELSE JsonString(Head(kv)[1]) \o opt.key_separator
         \o JsonEncode(Head(kv)[2], opt, level)
         \o (IF Tail(kv) = <<>> THEN <<>>
             ELSE opt.item_separator \o NewlineIndent(opt, level)
                    \o JsonEncodeMembers(Tail(kv), opt, level))

\* json's encoder on one object at a nesting level
JsonEncode(o, opt, level) ==
  CASE o.t = "str"   -> JsonString(o.s)
    [] o.t = "int"   -> IntRepr(o.n)
    [] o.t = "float" -> FloatRepr(o.n)
    [] o.t = "list"  ->
         IF o.c = <<>> THEN <<"[", "]">>
         ELSE <<"[">> \o NewlineIndent(opt, level + 1)
                \o JsonEncodeItems(o.c, opt, level + 1)
                \o NewlineIndent(opt, level) \o <<"]">>
    [] o.t = "dict"  ->
         IF o.c = <<>> THEN <<"{", "}">>
         ELSE <<"{">> \o NewlineIndent(opt, level + 1)
                \o JsonEncodeMembers(IF opt.sort_keys THEN SortItems(o.c) ELSE o.c,
                                     opt, level + 1)
                \o NewlineIndent(opt, level) \o <<"}">>

\* json.dumps(o, ...) as a str
JsonDumps(o, opt) == JsonEncode(o, opt, 0)

\* the first position at or after i that holds no JSON whitespace
RECURSIVE SkipWs(_, _)
SkipWs(s, i) ==
  IF i <= Len(s) /\ s[i] \in {" ", "\n"} THEN SkipWs(s, i + 1) ELSE i

\* the first position at or after i that holds a character of stop,
\* or Len(s) + 1
ScanTo(s, i, stop) ==
  CHOOSE j \in i..(Len(s) + 1) :
    /\ j = Len(s) + 1 \/ s[j] \in stop
    /\ \A k \in i..(j - 1) : s[k] \notin stop

\* a JSON number: an int when it has no fraction, else a float
JsonNumber(txt) ==
  LET neg  == txt # <<>> /\ txt[1] = "-"
      body == IF neg THEN Tail(txt) ELSE txt
      dot  == ScanTo(body, 1, {"."})
      sign == IF neg THEN -1 ELSE 1
  IN  IF dot > Len(body) THEN PyInt(sign * NatParse(body))
      ELSE PyFloat(sign * (NatParse(SubSeq(body, 1, dot - 1)) * 10
                             + DigitVal(body[dot + 1])))

RECURSIVE JsonParseValue(_, _)
RECURSIVE JsonParseItems(_, _, _)
RECURSIVE JsonParseMembers(_, _, _)

\* the items of an array from position i (after "[" or ","), acc so far
JsonParseItems(s, i, acc) ==
  LET item == JsonParseValue(s, i)
      j    == SkipWs(s, item.i)
  IN  IF s[j] = "," THEN JsonParseItems(s, j + 1, Append(acc, item.v))
      ELSE [v |-> PyList(Append(acc, item.v)), i |-> j + 1]

\* the members of an object from position i (after "{" or ","), acc so far
JsonParseMembers(s, i, acc) ==
  LET k     == SkipWs(s, i)
      close == ScanTo(s, k + 1, {"\""})
      key   == SubSeq(s, k + 1, close - 1)
      colon == SkipWs(s, close + 1)
      val   == JsonParseValue(s, colon + 1)
      j     == SkipWs(s, val.i)
  IN  IF s[j] = "," THEN JsonParseMembers(s, j + 1, Append(acc, <<key, val.v>>))
      ELSE [v |-> PyDict(Append(acc, <<key, val.v>>)), i |-> j + 1]

\* the value that starts at or after position i, and the position after it
JsonParseValue(s, i) ==
  LET k == SkipWs(s, i)
  IN  CASE s[k] = "{" ->
             IF s[SkipWs(s, k + 1)] = "}"
             THEN [v |-> PyDict(<<>>), i |-> SkipWs(s, k + 1) + 1]
             ELSE JsonParseMembers(s, k + 1, <<>>)
        [] s[k] = "[" ->
             IF s[SkipWs(s, k + 1)] = "]"
             THEN [v |-> PyList(<<>>), i |-> SkipWs(s, k + 1) + 1]
             ELSE JsonParseItems(s, k + 1, <<>>)
        [] s[k] = "\"" ->
             LET close == ScanTo(s, k + 1, {"\""})
             IN  [v |-> PyStr(SubSeq(s, k + 1, close - 1)), i |-> close + 1]
        [] OTHER ->
             LET end == ScanTo(s, k, {",", "]", "}", " ", "\n"})
             IN  [v |-> JsonNumber(SubSeq(s, k, end - 1)), i |-> end]

\* json.loads(s): dicts keep the order of the text
JsonLoads(s) == JsonParseValue(s, 1).v

(***************************************************************************)
(* cbor2.dumps and cbor2.loads.  The encoded bytes are modelled as the     *)
(* sequence of their data item heads [mt, ai, arg, s]: major type,         *)
(* additional information, argument, and the content bytes of a text       *)
(* string.  A float is major type 7 with additional information 27 (a      *)
(* double, as cbor2 writes every finite float); arg stands for its 8 bytes.*)
(***************************************************************************)
\* the additional information cbor2 picks for an argument
CborAi(arg) == IF arg < 24 THEN arg
               ELSE IF arg < 256 THEN 24
               ELSE IF arg < 65536 THEN 25
               ELSE 26

CborHead(mt, arg, s) == [mt |-> mt, ai |-> CborAi(arg), arg |-> arg, s |-> s]

RECURSIVE CborEncode(_)
RECURSIVE CborEncodeItems(_)
RECURSIVE CborEncodeMembers(_)

CborEncodeItems(items) ==
  IF items = <<>> THEN <<>>
  ELSE CborEncode(Head(items)) \o CborEncodeItems(Tail(items))

\* the pairs of a map, in the dict's insertion order
CborEncodeMembers(kv) ==
  IF kv = <<>> THEN <<>>
  ELSE CborEncode(PyStr(Head(kv)[1])) \o CborEncode(Head(kv)[2])
         \o CborEncodeMembers(Tail(kv))

\* cbor2.dumps(o)
CborEncode(o) ==
  CASE o.t = "str"   -> <<CborHead(3, Len(o.s), EncodeUtf8(o.s))>>
    [] o.t = "int"   -> IF o.n >= 0 THEN <<CborHead(0, o.n, <<>>)>>
                        ELSE <<CborHead(1, -1 - o.n, <<>>)>>
    [] o.t = "float" -> <<[mt |-> 7, ai |-> 27, arg |-> o.n, s |-> <<>>]>>
    [] o.t = "list"  -> <<CborHead(4, Len(o.c), <<>>)>> \o CborEncodeItems(o.c)
    [] o.t = "dict"  -> <<CborHead(5, Len(o.c), <<>>)>> \o CborEncodeMembers(o.c)

RECURSIVE CborDecodeItem(_, _)
RECURSIVE CborDecodeItems(_, _, _, _)
RECURSIVE CborDecodeMembers(_, _, _, _)

\* n items from position i, acc so far
CborDecodeItems(b, i, n, acc) ==
  IF n = 0 THEN [v |-> PyList(acc), i |-> i]
  ELSE LET item == CborDecodeItem(b, i)
       IN  CborDecodeItems(b, item.i, n - 1, Append(acc, item.v))

\* n key/value pairs from position i, acc so far
CborDecodeMembers(b, i, n, acc) ==
  IF n = 0 THEN [v |-> PyDict(acc), i |-> i]
  ELSE LET key == CborDecodeItem(b, i)
           val == CborDecodeItem(b, key.i)
       IN  CborDecodeMembers(b, val.i, n - 1, Append(acc, <<key.v.s, val.v>>))

\* the data item at position i, and the position after it
CborDecodeItem(b, i) ==
  LET h == b[i]
  IN  CASE h.mt = 0 -> [v |-> PyInt(h.arg), i |-> i + 1]
        [] h.mt = 1 -> [v |-> PyInt(-1 - h.arg), i |-> i + 1]
        [] h.mt = 3 -> [v |-> PyStr(DecodeUtf8(h.s)), i |-> i + 1]
        [] h.mt = 4 -> CborDecodeItems(b, i + 1, h.arg, <<>>)
        [] h.mt = 5 -> CborDecodeMembers(b, i + 1, h.arg, <<>>)
        [] h.mt = 7 -> [v |-> PyFloat(h.arg), i |-> i + 1]

\* cbor2.loads(b)
CborLoads(b) == CborDecodeItem(b, 1).v

(***************************************************************************)
(* hmac and bytes.hex.                                                     *)
(***************************************************************************)
\* length of a SHA-256 digest in bytes
DigestSize == 32

\* a byte string folded into a number below 65521: the sum of its bytes,
\* each weighted by its position (summed by halves)
RECURSIVE FoldRange(_, _, _)
FoldRange(b, lo, hi) ==
  IF lo > hi THEN 0
  ELSE IF lo = hi THEN ((lo % 251) + 1) * b[lo]
  ELSE LET mid == (lo + hi) \div 2
       IN  (FoldRange(b, lo, mid) + FoldRange(b, mid + 1, hi)) % 65521

Fold(b) == FoldRange(b, 1, Len(b))

\* hmac.new(key, msg, hashlib.sha256).digest(): the library primitive is
\* abstracted to a fixed function of the key bytes and the message bytes
\* that yields DigestSize bytes
HmacSha256(key, msg) ==
  LET k == Fold(key)
      m == Fold(msg)
  IN  [i \in 1..DigestSize |-> (m * (2 * i + 1) + k * (i + 2) + i) % 256]

HexDigits == <<"0", "1", "2", "3", "4", "5", "6", "7",
               "8", "9", "a", "b", "c", "d", "e", "f">>

\* bytes.hex(): two lowercase hexadecimal digits per byte, high nibble first
RECURSIVE Hex(_)
Hex(b) == IF b = <<>> THEN <<>>
          ELSE <<HexDigits[(Head(b) \div 16) + 1], HexDigits[(Head(b) % 16) + 1]>>
                 \o Hex(Tail(b))

(***************************************************************************)
(* str literals of the program.                                            *)
(***************************************************************************)
K_protected == <<"p", "r", "o", "t", "e", "c", "t", "e", "d">>
K_signature == <<"s", "i", "g", "n", "a", "t", "u", "r", "e">>
K_payload == <<"p", "a", "y", "l", "o", "a", "d">>
K_ver == <<"v", "e", "r">>
K_alg == <<"a", "l", "g">>
K_iat == <<"i", "a", "t">>
K_device_name == <<"d", "e", "v", "i", "c", "e", "_", "n", "a", "m", "e">>
K_device_type == <<"d", "e", "v", "i", "c", "e", "_", "t", "y", "p", "e">>
K_interval_ms == <<"i", "n", "t", "e", "r", "v", "a", "l", "_", "m", "s">>
K_sensors == <<"s", "e", "n", "s", "o", "r", "s">>
K_values == <<"v", "a", "l", "u", "e", "s">>
K_name == <<"n", "a", "m", "e">>
K_units == <<"u", "n", "i", "t", "s">>

V1 == <<"v", "1">>
HS256 == <<"H", "S", "2", "5", "6">>
AlgNone == <<"n", "o", "n", "e">>
\* FileFormat.JSON.value and FileFormat.CBOR.value
FileFormat_JSON == <<"j", "s", "o", "n">>
FileFormat_CBOR == <<"c", "b", "o", "r">>
ApplicationJson == <<"a", "p", "p", "l", "i", "c", "a", "t", "i", "o", "n", "/", "j", "s", "o", "n">>
ApplicationCbor == <<"a", "p", "p", "l", "i", "c", "a", "t", "i", "o", "n", "/", "c", "b", "o", "r">>

None == <<>>
Some(x) == <<x>>

\* "0" * 64, the placeholder signature
Zero64 == Repeat("0", 64)

(***************************************************************************)
(* Requests.  A raw request is the JSON body a client posts; FastAPI turns *)
(* it into a SensorDataRequest or rejects it.                              *)
(***************************************************************************)
\* the i-th sensor axis a client may send
Axis(i) == [name  |-> <<"a", "c", "c">> \o NatRepr(i),
            units |-> IF i % 2 = 1 THEN <<"m", "/", "s", "2">> ELSE <<"g">>]

\* the reading a client sends in row r, column c: zero, negative and positive
Reading(r, c) == (r - c) * 49

\* a values array whose row r has width w[r]
ValuesOf(w) == [r \in 1..Len(w) |-> [c \in 1..w[r] |-> Reading(r, c)]]

\* the row widths of the values arrays clients send: any number of rows up
\* to MaxRows, each of any width up to MaxSensors (ragged arrays included)
RowWidths == UNION {[1..n -> 0..MaxSensors] : n \in 0..MaxRows}

RawRequests ==
  [device_name : {<<"d", "1">>},
   device_type : {<<"i", "m", "u">>},
   interval_ms : {100},
   sensors     : {[i \in 1..n |-> Axis(i)] : n \in 0..MaxSensors},
   values      : {ValuesOf(w) : w \in RowWidths},
   timestamp   : {None, Some(0), Some(7)},
   label       : {None, Some(<<"i", "d", "l", "e">>)},
   file_format : {FileFormat_JSON, FileFormat_CBOR}]

\* validate_values_not_empty
validate_values_not_empty(v) == v # <<>>

\* a variant of validate_values_dimensions that checks nothing
validate_values_dimensions_skipped(v) == TRUE

\* validate_values_dimensions: every row is as long as the first one
validate_values_dimensions(v) ==
  v = <<>> \/ \A i \in 1..Len(v) : Len(v[i]) = Len(v[1])

\* a variant of FieldErrors without the min_length constraints and without
\* validate_values_not_empty
FieldErrors_no_min_length(raw) ==
  (IF raw.interval_ms > 0 THEN <<>> ELSE <<K_interval_ms>>)
  \o (IF validate_values_dimensions(raw.values) THEN <<>> ELSE <<K_values>>)

\* the fields of SensorDataRequest that fail validation, in field order:
\* interval_ms gt=0, sensors min_length=1, values min_length=1 and its two
\* field validators (these are the "loc" entries of the 422 response)
FieldErrors(raw) ==
  (IF raw.interval_ms > 0 THEN <<>> ELSE <<K_interval_ms>>)
  \o (IF Len(raw.sensors) >= 1 THEN <<>> ELSE <<K_sensors>>)
  \o (IF /\ Len(raw.values) >= 1
         /\ validate_values_not_empty(raw.values)
         /\ validate_values_dimensions(raw.values)
      THEN <<>> ELSE <<K_values>>)

\* the field constraints and validators of SensorDataRequest
SensorDataRequest(raw) == FieldErrors(raw) = <<>>

(***************************************************************************)
(* The process: module state, the wall clock, and the request being        *)
(* handled with the locals of convert_and_upload.  The handler is an async *)
(* function that never awaits, so requests are handled one at a time.      *)
(***************************************************************************)
VARIABLES
  settings,         \* app.config.settings
  converter,        \* converter_routes.converter
  _storage_client,  \* storage_routes._storage_client
  clock_ms,         \* the wall clock, in milliseconds
  pc,               \* where the handler stands
  request,          \* the SensorDataRequest being handled
  trace,            \* the calls made for this request, in order
  ei_payload,       \* convert: ei_payload
  json_str,         \* _sign_data: json_str
  filename,         \* convert: filename
  content,          \* convert: content
  content_type,     \* convert: content_type
  put_object,       \* the put_object call made for this request
  exc,              \* the exception in flight
  response,         \* the HTTP response
  signed,           \* an earlier conversion: its inputs and its signature
  named,            \* an earlier conversion: its request and the name it got
  broker,           \* the task messages waiting in the broker queue
  backend,          \* the result backend: task id -> state and result
  samples,          \* the committed rows of the DataSample table
  worker,           \* the worker slot: the task in hand and its locals
  ei_calls,         \* per task id, the outcomes of its upload_sample calls
  submitted,        \* the calls of ingest_data: the data and the task id
  ingest_response,  \* the last response of ingest_data
  status_response,  \* the last response of get_task_status
  metadata,         \* the last UploadMetadata(...) call: arguments and outcome
  constructed,      \* the S3StorageClient objects constructed so far, in order
  config_response,  \* the last response of get_storage_config
  lifespan_pc,      \* where the lifespan context manager stands
  session,          \* app.state.session: absent, open or closed
  session_seen,     \* what the last get_session call returned
  jobs,             \* the committed rows of the TrainingJob table
  outbound          \* the call the last training task made to another service

\* the state of the queued path
queue_vars == <<broker, backend, samples, worker, ei_calls, submitted,
                ingest_response, status_response>>

\* the state the handler of convert_and_upload never touches
\* the state outside the two routers and the upload task
\* app.core.lifespan and app.core.dependencies
lifespan_vars == <<lifespan_pc, session, session_seen>>

\* the tables and services of the training tasks
training_vars == <<jobs, outbound>>

other_vars == <<metadata, config_response, lifespan_vars, training_vars>>

aside == <<named, queue_vars, other_vars>>

(***************************************************************************)
(* EdgeImpulseConverter (app/services/converter.py).  self is the          *)
(* converter object [hmac_key].                                            *)
(***************************************************************************)
\* Python truth value of an Optional[int] / Optional[str]
TruthyInt(opt) == opt # None /\ opt[1] # 0
TruthyStr(opt) == opt # None /\ opt[1] # <<>>

\* a variant of the signed text written without sort_keys
_sign_data_json_str_unsorted(data) ==
  JsonDumps(DictSet(data, K_signature, PyStr(Zero64)),
            [CompactSorted EXCEPT !.sort_keys = FALSE])

\* _sign_data, lines 60-64: the text that is signed
_sign_data_json_str(data) ==
  JsonDumps(DictSet(data, K_signature, PyStr(Zero64)), CompactSorted)

\* a variant of _sign_data that mixes the time of signing into the message
_sign_data_salted(self, data) ==
  IF self.hmac_key = <<>> THEN Zero64
  ELSE Hex(HmacSha256(EncodeUtf8(self.hmac_key),
                      EncodeUtf8(JsonDumps(DictSet(data, K_signature, PyStr(Zero64)),
                                           CompactSorted)
                                   \o IntRepr(clock_ms))))

\* _sign_data
_sign_data(self, data) ==
  IF self.hmac_key = <<>> THEN Zero64
  ELSE Hex(HmacSha256(EncodeUtf8(self.hmac_key),
                      EncodeUtf8(_sign_data_json_str(data))))

\* a variant of the protected header whose alg ignores the key
ProtectedOf_alg_fixed(self, req, now) ==
  PyDict(<< <<K_ver, PyStr(V1)>>,
            <<K_alg, PyStr(HS256)>>,
            <<K_iat, PyInt(IF TruthyInt(req.timestamp)
                           THEN req.timestamp[1] ELSE now)>> >>)

\* a variant of the protected header that leaves ver out
ProtectedOf_no_ver(self, req, now) ==
  PyDict(<< <<K_alg, PyStr(IF self.hmac_key # <<>> THEN HS256 ELSE AlgNone)>>,
            <<K_iat, PyInt(IF TruthyInt(req.timestamp)
                           THEN req.timestamp[1] ELSE now)>> >>)

\* _build_edge_impulse_payload, lines 92-96; now is int(datetime.now().timestamp())
ProtectedOf(self, req, now) ==
  PyDict(<< <<K_ver, PyStr(V1)>>,
            <<K_alg, PyStr(IF self.hmac_key # <<>> THEN HS256 ELSE AlgNone)>>,
            <<K_iat, PyInt(IF TruthyInt(req.timestamp)
                           THEN req.timestamp[1] ELSE now)>> >>)

\* a variant of the payload that lists the sensors last to first
PayloadOf_reversed(req) ==
  PyDict(<< <<K_device_name, PyStr(req.device_name)>>,
            <<K_device_type, PyStr(req.device_type)>>,
            <<K_interval_ms, PyFloat(req.interval_ms)>>,
            <<K_sensors,
              PyList([i \in 1..Len(req.sensors) |->
                        LET sensor == req.sensors[Len(req.sensors) + 1 - i]
                        IN  PyDict(<< <<K_name,  PyStr(sensor.name)>>,
                                      <<K_units, PyStr(sensor.units)>> >>)])>>,
            <<K_values,
              PyList([r \in 1..Len(req.values) |->
                        PyList([c \in 1..Len(req.values[r]) |->
                                  PyFloat(req.values[r][c])])])>> >>)

\* _build_edge_impulse_payload, lines 99-108
PayloadOf(req) ==
  PyDict(<< <<K_device_name, PyStr(req.device_name)>>,
            <<K_device_type, PyStr(req.device_type)>>,
            <<K_interval_ms, PyFloat(req.interval_ms)>>,
            <<K_sensors,
              PyList([i \in 1..Len(req.sensors) |->
                        PyDict(<< <<K_name,  PyStr(req.sensors[i].name)>>,
                                  <<K_units, PyStr(req.sensors[i].units)>> >>)])>>,
            <<K_values,
              PyList([r \in 1..Len(req.values) |->
                        PyList([c \in 1..Len(req.values[r]) |->
                                  PyFloat(req.values[r][c])])])>> >>)

\* a variant of _build_edge_impulse_payload that signs the payload alone
_build_edge_impulse_payload_signs_payload(self, req, now) ==
  LET ei_data == PyDict(<< <<K_protected, ProtectedOf(self, req, now)>>,
                           <<K_signature, PyStr(Zero64)>>,
                           <<K_payload,   PayloadOf(req)>> >>)
  IN  DictSet(ei_data, K_signature, PyStr(_sign_data(self, PayloadOf(req))))

\* _build_edge_impulse_payload
_build_edge_impulse_payload(self, req, now) ==
  LET ei_data == PyDict(<< <<K_protected, ProtectedOf(self, req, now)>>,
                           <<K_signature, PyStr(Zero64)>>,
                           <<K_payload,   PayloadOf(req)>> >>)
  IN  DictSet(ei_data, K_signature, PyStr(_sign_data(self, ei_data)))

\* a variant of _validate_dimensions that takes the number of rows for the
\* width of a row
_validate_dimensions_by_rows(req) ==
  LET sensor_count     == Len(req.sensors)
      value_dimensions == Len(req.values)
  IN  IF sensor_count # value_dimensions
      THEN Some([template |-> "Sensor count ({0}) doesn't match value dimensions ({1})",
                 args     |-> <<IntRepr(sensor_count), IntRepr(value_dimensions)>>])
      ELSE None

\* _validate_dimensions: None, or the message of the ValueError it raises
_validate_dimensions(req) ==
  LET sensor_count     == Len(req.sensors)
      value_dimensions == IF req.values # <<>> THEN Len(req.values[1]) ELSE 0
  IN  IF sensor_count # value_dimensions
      THEN Some([template |-> "Sensor count ({0}) doesn't match value dimensions ({1})",
                 args     |-> <<IntRepr(sensor_count), IntRepr(value_dimensions)>>])
      ELSE None

\* a variant of _generate_filename that leaves the label out
_generate_filename_no_label(req, file_format, now_ms) ==
  req.device_type \o <<"_">> \o IntRepr(now_ms) \o <<".">> \o file_format

\* _generate_filename; now_ms is int(datetime.now().timestamp() * 1000)
_generate_filename(req, file_format, now_ms) ==
  LET label_part == IF TruthyStr(req.label) THEN <<"_">> \o req.label[1] ELSE <<>>
  IN  req.device_type \o label_part \o <<"_">> \o IntRepr(now_ms)
        \o <<".">> \o file_format

\* the encoder handed the payload member instead of the envelope
EncodeContent_payload_only(ei_data, file_format) ==
  IF file_format = FileFormat_CBOR
  THEN [content |-> CborEncode(DictGet(ei_data, K_payload)),
        content_type |-> ApplicationCbor]
  ELSE [content |-> EncodeUtf8(JsonDumps(DictGet(ei_data, K_payload), Indent2)),
        content_type |-> ApplicationJson]

\* convert, lines 197-205: the content and its content type
EncodeContent(ei_data, file_format) ==
  IF file_format = FileFormat_CBOR
  THEN [content |-> CborEncode(ei_data), content_type |-> ApplicationCbor]
  ELSE [content |-> EncodeUtf8(JsonDumps(ei_data, Indent2)),
        content_type |-> ApplicationJson]

\* the bytes one CBOR head stands for: the initial byte, the argument, the content
CborHeadSize(h) ==
  1 + Len(h.s) + (CASE h.ai < 24 -> 0 [] h.ai = 24 -> 1 [] h.ai = 25 -> 2
                    [] h.ai = 26 -> 4 [] h.ai = 27 -> 8)

RECURSIVE CborSize(_)
CborSize(b) == IF b = <<>> THEN 0 ELSE CborHeadSize(Head(b)) + CborSize(Tail(b))

\* len(content)
ContentLen(c, file_format) ==
  IF file_format = FileFormat_CBOR THEN CborSize(c) ELSE Len(c)

vars == <<settings, converter, _storage_client, constructed, clock_ms, pc,
          request, trace,
          ei_payload, json_str, filename, content, content_type, put_object,
          exc, response, signed, aside>>

locals == <<ei_payload, json_str, filename, content, content_type, put_object,
            exc, response>>

\* the environments the process is started in
SettingsChoices ==
  [EI_HMAC_KEY     : {None, Some(<<>>), Some(<<"k", "1">>)},
   S3_ENDPOINT_URL : {Some(<<"h", "t", "t", "p", ":", "/", "/", "s", "3">>),
                      Some(<<"s", "3", ":", "9">>)},
   S3_BUCKET       : {None, Some(<<"e", "i">>)},
   S3_ACCESS_KEY   : {Some(<<"A", "K">>)},
   S3_SECRET_KEY   : {Some(<<"S", "K">>)},
   S3_BASE_PATH    : {<<"e", "d", "g", "e", "-", "i", "m", "p", "u", "l", "s", "e", "-", "d", "a", "t", "a">>}]

\* settings.EI_HMAC_KEY or ""
OrEmpty(opt) == IF TruthyStr(opt) THEN opt[1] ELSE <<>>

\* EdgeImpulseConverter.__init__
EdgeImpulseConverter(hmac_key) == [hmac_key |-> hmac_key]

\* the first reading of the wall clock and the step it advances by
ClockOf(ticks) == 1500 + 600 * ticks

\* int(datetime.now().timestamp())
NowSeconds == clock_ms \div 1000

\* the worker slot with no task in hand
WorkerIdle == [pc |-> "idle", msg |-> None, sample |-> None, exc |-> None,
               retval |-> None, db_open |-> FALSE]

\* the queued path before any call: an empty queue, no result stored, and
\* the DataSample rows the database holds
\* the application has started: the lifespan stands at its yield
InitOther ==
  /\ metadata = None
  /\ config_response = None
  /\ lifespan_pc = "serving"
  /\ session = "open"
  /\ session_seen = None
  /\ jobs = {}
  /\ outbound = None

InitQueueVars(rows) ==
  /\ broker = <<>>
  /\ backend = <<>>
  /\ samples \in {rows}
  /\ worker = WorkerIdle
  /\ ei_calls = <<>>
  /\ submitted = <<>>
  /\ ingest_response = None
  /\ status_response = None

Init ==
  /\ settings \in SettingsChoices
  /\ converter = EdgeImpulseConverter(OrEmpty(settings.EI_HMAC_KEY))
  /\ _storage_client = None
  /\ constructed = <<>>
  /\ clock_ms = ClockOf(0)
  /\ pc = "idle"
  /\ request = None
  /\ trace = <<>>
  /\ ei_payload = None
  /\ json_str = None
  /\ filename = None
  /\ content = None
  /\ content_type = None
  /\ put_object = None
  /\ exc = None
  /\ response = None
  /\ signed = None
  /\ named = None
  /\ InitQueueVars({})
  /\ InitOther

\* time passes.  The clock is read in Build and in GenerateFilename only, so
\* an advance is taken where the next reading sees it: while idle, or in
\* convert between its two readings
Tick ==
  /\ pc \in {"idle", "filename"}
  /\ clock_ms < ClockOf(MaxTicks)
  /\ clock_ms' = clock_ms + 600
  /\ UNCHANGED <<aside, constructed, settings, converter, signed, _storage_client, pc, request, trace, locals>>

NoMessage == [template |-> "", args |-> <<>>]

HttpResponse(status_code, detail, body) ==
  [status_code |-> status_code, detail |-> detail, body |-> body]

\* the detail of FastAPI's 422 answer: the fields that failed
RequestValidationError(raw) ==
  [template |-> "validation error", args |-> FieldErrors(raw)]

\* a client posts raw; FastAPI builds the SensorDataRequest and calls the
\* handler, or answers 422 when the model rejects the body
Receive(raw) ==
  /\ pc = "idle"
  /\ IF SensorDataRequest(raw)
     THEN /\ request' = Some(raw)
          /\ response' = None
          /\ pc' = "convert"
     ELSE /\ request' = None
          /\ response' = Some(HttpResponse(422, RequestValidationError(raw), None))
          /\ pc' = "done"
  /\ UNCHANGED <<aside, constructed, settings, converter, signed, _storage_client, clock_ms, trace,
                 ei_payload, json_str, filename, content, content_type,
                 put_object, exc>>

\* the response is sent; the request and the handler's locals are gone
Finish ==
  /\ pc = "done"
  /\ pc' = "idle"
  /\ request' = None
  /\ trace' = <<>>
  /\ ei_payload' = None
  /\ json_str' = None
  /\ filename' = None
  /\ content' = None
  /\ content_type' = None
  /\ put_object' = None
  /\ exc' = None
  /\ response' = None
  /\ UNCHANGED <<aside, constructed, settings, converter, signed, _storage_client, clock_ms>>

\* convert, line 188: self._validate_dimensions(request)
Validate ==
  /\ pc = "convert"
  /\ trace' = Append(trace, "_validate_dimensions")
  /\ LET err == _validate_dimensions(request[1])
     IN  IF err # None
         THEN /\ exc' = Some([type |-> "ValueError", msg |-> err[1]])
              /\ pc' = "except"
         ELSE /\ exc' = exc
              /\ pc' = "build"
  /\ UNCHANGED <<aside, constructed, settings, converter, signed, _storage_client, clock_ms, request,
                 ei_payload, json_str, filename, content, content_type,
                 put_object, response>>

\* convert, line 191: self._build_edge_impulse_payload(request), which signs
Build ==
  /\ pc = "build"
  /\ trace' = trace \o <<"_build_edge_impulse_payload", "_sign_data">>
  /\ ei_payload' = Some(_build_edge_impulse_payload(converter, request[1], NowSeconds))
  /\ json_str' = IF converter.hmac_key = <<>> THEN None
                 ELSE Some(_sign_data_json_str(ei_payload'[1]))
  /\ pc' = "filename"
  /\ UNCHANGED <<aside, constructed, settings, converter, signed, _storage_client, clock_ms, request,
                 filename, content, content_type, put_object, exc, response>>

\* convert, line 194: self._generate_filename(request, request.file_format)
GenerateFilename ==
  /\ pc = "filename"
  /\ trace' = Append(trace, "_generate_filename")
  /\ filename' = Some(_generate_filename(request[1], request[1].file_format, clock_ms))
  /\ pc' = "encode"
  /\ UNCHANGED <<aside, constructed, settings, converter, signed, _storage_client, clock_ms, request,
                 ei_payload, json_str, content, content_type, put_object, exc,
                 response>>

\* convert, lines 197-207: cbor2.dumps or json.dumps
Encode ==
  /\ pc = "encode"
  /\ trace' = Append(trace, "encode")
  /\ LET e == EncodeContent(ei_payload[1], request[1].file_format)
     IN  /\ content' = Some(e.content)
         /\ content_type' = Some(e.content_type)
  /\ pc' = "get_storage_client"
  /\ UNCHANGED <<aside, constructed, settings, converter, signed, _storage_client, clock_ms, request,
                 ei_payload, json_str, filename, put_object, exc, response>>

\* get_storage_client, lines 27-34: all([...]) over the four settings
\* a variant of the completeness test that leaves the secret key out
ConfigComplete_ignores_secret(cfg) ==
  /\ TruthyStr(cfg.S3_ENDPOINT_URL)
  /\ TruthyStr(cfg.S3_BUCKET)
  /\ TruthyStr(cfg.S3_ACCESS_KEY)

ConfigComplete(cfg) ==
  /\ TruthyStr(cfg.S3_ENDPOINT_URL)
  /\ TruthyStr(cfg.S3_BUCKET)
  /\ TruthyStr(cfg.S3_ACCESS_KEY)
  /\ TruthyStr(cfg.S3_SECRET_KEY)

\* S3StorageClient.__init__, lines 59-74: boto3.client(...) takes an
\* endpoint_url that names a scheme and a host ("http://s3") and raises
\* ValueError("Invalid endpoint: ...") for one that does not ("s3:9"); the
\* constructor logs the exception and raises it again
IsValidEndpointUrl(url) ==
  \E i \in 2..(Len(url) - 3) : SubSeq(url, i, i + 2) = <<":", "/", "/">>

\* the settings a storage client can be made from
Usable(cfg) == ConfigComplete(cfg) /\ IsValidEndpointUrl(cfg.S3_ENDPOINT_URL[1])

\* S3StorageClient.__init__
S3StorageClient(cfg) ==
  [endpoint_url |-> cfg.S3_ENDPOINT_URL[1], bucket |-> cfg.S3_BUCKET[1],
   base_path |-> cfg.S3_BASE_PATH,
   _access_key |-> cfg.S3_ACCESS_KEY, _secret_key |-> cfg.S3_SECRET_KEY]

\* a variant of get_storage_client that keeps nothing: it looks at the
\* configuration and constructs a client on every call
get_storage_client_no_cache(client, cfg) ==
  IF ~ConfigComplete(cfg)
  THEN [client |-> None, made |-> <<>>,
        raised |-> Some([type |-> "HTTPException",
                         msg  |-> [template |-> "500: S3 configuration is incomplete. Please check environment variables.",
                                   args     |-> <<>>]])]
  ELSE IF ~IsValidEndpointUrl(cfg.S3_ENDPOINT_URL[1])
  THEN [client |-> None, made |-> <<>>,
        raised |-> Some([type |-> "ValueError",
                         msg  |-> [template |-> "Invalid endpoint: {0}",
                                   args     |-> <<cfg.S3_ENDPOINT_URL[1]>>]])]
  ELSE [client |-> Some(S3StorageClient(cfg)),
        made   |-> <<S3StorageClient(cfg)>>, raised |-> None]

\* get_storage_client(), called with the module's _storage_client and the
\* settings: the value _storage_client has afterwards, the clients the call
\* constructed, and the exception it raised if any
get_storage_client(client, cfg) ==
  IF client # None
  THEN [client |-> client, made |-> <<>>, raised |-> None]
  ELSE IF ~ConfigComplete(cfg)
  THEN [client |-> None, made |-> <<>>,
        raised |-> Some([type |-> "HTTPException",
                         msg  |-> [template |-> "500: S3 configuration is incomplete. Please check environment variables.",
                                   args     |-> <<>>]])]
  ELSE IF ~IsValidEndpointUrl(cfg.S3_ENDPOINT_URL[1])
  THEN [client |-> None, made |-> <<>>,
        raised |-> Some([type |-> "ValueError",
                         msg  |-> [template |-> "Invalid endpoint: {0}",
                                   args     |-> <<cfg.S3_ENDPOINT_URL[1]>>]])]
  ELSE [client |-> Some(S3StorageClient(cfg)),
        made   |-> <<S3StorageClient(cfg)>>, raised |-> None]

\* convert_and_upload, line 66: get_storage_client()
GetStorageClient ==
  /\ pc = "get_storage_client"
  /\ trace' = Append(trace, "get_storage_client")
  /\ LET call == get_storage_client(_storage_client, settings)
     IN  /\ _storage_client' = call.client
         /\ constructed' = constructed \o call.made
         /\ exc' = IF call.raised # None THEN call.raised ELSE exc
         /\ pc' = IF call.raised # None THEN "except" ELSE "upload_file"
  /\ UNCHANGED <<aside, settings, converter, signed, clock_ms, request, ei_payload, json_str,
                 filename, content, content_type, put_object, response>>

\* upload_file, line 121
S3Key(client, name) == client.base_path \o <<"/">> \o name

\* a variant of UploadFile that goes on after a failed put_object
UploadFile_ignores_failure(outcome) ==
  /\ pc = "upload_file"
  /\ trace' = trace \o <<"upload_file", "put_object">>
  /\ put_object' = Some([Bucket      |-> _storage_client[1].bucket,
                         Key         |-> S3Key(_storage_client[1], filename[1]),
                         ContentType |-> content_type[1],
                         stored      |-> outcome = "ok"])
  /\ exc' = exc
  /\ pc' = "respond"
  /\ UNCHANGED <<aside, constructed, settings, converter, signed, _storage_client, clock_ms, request,
                 ei_payload, json_str, filename, content, content_type, response>>

\* convert_and_upload, lines 69-78: client.upload_file(...); the outcome of
\* put_object is the storage service's
UploadFile(outcome) ==
  /\ pc = "upload_file"
  /\ trace' = trace \o <<"upload_file", "put_object">>
  /\ put_object' = Some([Bucket      |-> _storage_client[1].bucket,
                         Key         |-> S3Key(_storage_client[1], filename[1]),
                         ContentType |-> content_type[1],
                         stored      |-> outcome = "ok"])
  /\ IF outcome = "ok"
     THEN /\ exc' = exc
          /\ pc' = "respond"
     ELSE /\ exc' = Some([type |-> "Exception",
                          msg  |-> [template |-> IF outcome = "ClientError"
                                                 THEN "S3 upload failed: {error_code} - {error_msg}"
                                                 ELSE "S3 upload failed: {str(e)}",
                                    args     |-> <<>>]])
          /\ pc' = "except"
  /\ UNCHANGED <<aside, constructed, settings, converter, signed, _storage_client, clock_ms, request,
                 ei_payload, json_str, filename, content, content_type, response>>

\* convert_and_upload, lines 82-88: the 201 response
Respond ==
  /\ pc = "respond"
  /\ response' = Some(HttpResponse(201, NoMessage,
                   Some([status    |-> "success",
                         s3_path   |-> put_object[1].Key,
                         filename  |-> filename[1],
                         file_size |-> ContentLen(content[1], request[1].file_format),
                         endpoint  |-> _storage_client[1].endpoint_url])))
  /\ pc' = "done"
  /\ UNCHANGED <<aside, constructed, settings, converter, signed, _storage_client, clock_ms, request, trace,
                 ei_payload, json_str, filename, content, content_type,
                 put_object, exc>>

\* a variant of StatusFor with the broad except clause first
StatusFor_broad_first(e) == 500

\* convert_and_upload, lines 90-98: the status of the HTTPException raised
\* for an exception of the try block
StatusFor(e) == IF e.type = "ValueError" THEN 400 ELSE 500

\* convert_and_upload, lines 90-98: its detail
DetailFor(e) ==
  IF e.type = "ValueError" THEN e.msg
  ELSE [template |-> "Failed to convert or upload data: " \o e.msg.template,
        args     |-> e.msg.args]

\* convert_and_upload, lines 90-98: the except clauses
Except ==
  /\ pc = "except"
  /\ response' = Some(HttpResponse(StatusFor(exc[1]), DetailFor(exc[1]), None))
  /\ pc' = "done"
  /\ UNCHANGED <<aside, constructed, settings, converter, signed, _storage_client, clock_ms, request, trace,
                 ei_payload, json_str, filename, content, content_type,
                 put_object, exc>>

Next ==
  \/ Tick
  \/ \E raw \in RawRequests : Receive(raw)
  \/ Validate
  \/ Build
  \/ GenerateFilename
  \/ Encode
  \/ GetStorageClient
  \/ \E outcome \in {"ok", "ClientError", "Exception"} : UploadFile(outcome)
  \/ Respond
  \/ Except
  \/ Finish

Spec == Init /\ [][Next]_vars

(***************************************************************************)
(* A second driver, for the claims about repeated conversions: the process *)
(* converts one request after another (convert up to the signed envelope)  *)
(* and keeps the previous conversion to compare the next one with.         *)
(***************************************************************************)
\* requests that pass every validation, without a label
SignRequests ==
  {raw \in RawRequests :
     /\ SensorDataRequest(raw)
     /\ _validate_dimensions(raw) = None
     /\ raw.label = None}

\* the envelope is taken; the conversion is kept as the earlier one
Remember ==
  /\ pc = "filename"
  /\ signed' = Some([hmac_key  |-> converter.hmac_key,
                     protected |-> DictGet(ei_payload[1], K_protected),
                     payload   |-> DictGet(ei_payload[1], K_payload),
                     signature |-> DictGet(ei_payload[1], K_signature).s,
                     clock_ms  |-> clock_ms])
  /\ pc' = "idle"
  /\ request' = None
  /\ trace' = <<>>
  /\ ei_payload' = None
  /\ json_str' = None
  /\ UNCHANGED <<aside, constructed, settings, converter, _storage_client, clock_ms, filename,
                 content, content_type, put_object, exc, response>>

NextSign ==
  \/ Tick
  \/ \E raw \in SignRequests : Receive(raw)
  \/ Validate
  \/ Build
  \/ Remember

SpecSign == Init /\ [][NextSign]_vars

(***************************************************************************)
(* A third driver, for the claims about the names of stored objects: the   *)
(* process converts one request after another (convert up to the encoded   *)
(* content) and keeps the previous conversion's request and name.          *)
(***************************************************************************)
\* device types and labels, with and without an underscore or a label
NameRequests ==
  [device_name : {<<"d", "1">>},
   device_type : {<<"i", "m", "u">>, <<"i", "m", "u", "_", "i", "d", "l", "e">>},
   interval_ms : {100},
   sensors     : {<<Axis(1)>>},
   values      : {ValuesOf(<<1>>)},
   timestamp   : {Some(7)},
   label       : {None, Some(<<>>), Some(<<"i", "d", "l", "e">>)},
   file_format : {FileFormat_JSON, FileFormat_CBOR}]

\* the process of this driver: storage configured, no signing key
InitName ==
  /\ Init
  /\ settings.EI_HMAC_KEY = None
  /\ Usable(settings)

\* convert has returned; the conversion is kept as the earlier one
RememberName ==
  /\ pc = "get_storage_client"
  /\ named' = Some([request      |-> request[1],
                    now_ms       |-> clock_ms,
                    filename     |-> filename[1],
                    content_type |-> content_type[1]])
  /\ pc' = "idle"
  /\ request' = None
  /\ trace' = <<>>
  /\ ei_payload' = None
  /\ json_str' = None
  /\ filename' = None
  /\ content' = None
  /\ content_type' = None
  /\ UNCHANGED <<queue_vars, other_vars, constructed, settings, converter, signed,
                 _storage_client, clock_ms, put_object, exc, response>>

NextName ==
  \/ Tick
  \/ \E raw \in NameRequests : Receive(raw)
  \/ Validate
  \/ Build
  \/ GenerateFilename
  \/ Encode
  \/ RememberName

SpecName == InitName /\ [][NextName]_vars

(***************************************************************************)
(* The queued path: ingest_data and get_task_status                        *)
(* (app/api/ingestion_routes.py), the broker queue, the result backend,    *)
(* and the worker running upload_to_edge_impulse                           *)
(* (worker/tasks/ei_task.py).  ingest_data imports the task under the name *)
(* upload_to_edge; the module defines one upload task,                     *)
(* upload_to_edge_impulse, and that is the task modelled.  The names the   *)
(* task module uses without defining them (logger, EdgeImpulseClient,      *)
(* DataSample) stand for the logger every other module defines, the Edge   *)
(* Impulse HTTP client and the sample table.                               *)
(***************************************************************************)
\* worker/celery_app.py, "Retry settings"
task_default_retry_delay == 60
task_max_retries == 3

\* the state of the API process, which the queued path leaves alone
\* the converter router's state
api_vars_but_other == <<settings, converter, _storage_client, constructed,
                        clock_ms, pc,
                        request, trace, locals, signed, named>>

api_vars == <<settings, converter, _storage_client, constructed, clock_ms, pc,
              request,
              trace, locals, signed, named, other_vars>>

\* ingest_data, line 30
data_id == "test_data_id"

\* the data clients submit: a valid frame, a frame with two axes and rows
\* of one reading, and a frame without readings
IngestInputs ==
  {raw \in RawRequests :
     /\ raw.timestamp = None /\ raw.label = None
     /\ raw.file_format = FileFormat_JSON
     /\ Len(raw.sensors) = 2
     /\ raw.values \in {ValuesOf(<<2>>), ValuesOf(<<1>>), ValuesOf(<<>>)}}

\* the DataSample row of the submitted data, not uploaded yet
NewSample(id) == [id |-> id, uploaded_to_ei |-> FALSE, ei_sample_id |-> None]

\* a task message
MessageAfter(id, name, args, countdown) ==
  [id |-> id, name |-> name, args |-> args, countdown |-> countdown]

\* delay(*args): no countdown
Message(id, name, args) == MessageAfter(id, name, args, 0)

\* the task ids given out so far, and the next one
IssuedIds ==
  {broker[i].id : i \in 1..Len(broker)} \cup DOMAIN backend
    \cup (IF worker.msg = None THEN {} ELSE {worker.msg[1].id})
NextTaskId ==
  IF IssuedIds = {} THEN 1
  ELSE (CHOOSE m \in IssuedIds : \A n \in IssuedIds : n <= m) + 1

\* AsyncResult(task_id).state: PENDING for a task without a stored result
StateOf(task_id) ==
  IF task_id \in DOMAIN backend THEN backend[task_id].state ELSE "PENDING"

\* AsyncResult.ready()
Ready(task_id) == StateOf(task_id) \in {"SUCCESS", "FAILURE", "REVOKED"}

\* the return values of upload_to_edge_impulse
TaskResult(status, message, ei_sample_id) ==
  [status |-> status, message |-> message, ei_sample_id |-> ei_sample_id]

\* m with the entry of key k set to v
Store(m, k, v) == [i \in DOMAIN m \cup {k} |-> IF i = k THEN v ELSE m[i]]

\* s without its i-th element
Remove(s, i) == SubSeq(s, 1, i - 1) \o SubSeq(s, i + 1, Len(s))

\* the calls recorded for a task
CallsOf(task_id) == IF task_id \in DOMAIN ei_calls THEN ei_calls[task_id] ELSE <<>>

\* a variant of ingest_data that runs the task before it answers
IngestData_runs_inline(data) ==
  /\ Len(submitted) < MaxTasks
  /\ worker.pc = "idle"
  /\ LET id == NextTaskId
     IN  /\ backend' = Store(backend, id,
                             [state  |-> "SUCCESS",
                              result |-> Some(TaskResult("error", Some("Sample not found"), None))])
         /\ submitted' = Append(submitted, [data |-> data, task_id |-> id])
         /\ ingest_response' = Some([message |-> "Task submitted", task_id |-> id])
  /\ UNCHANGED <<api_vars, broker, samples, worker, ei_calls, status_response>>

\* ingest_data: upload_to_edge.delay(data_id), then the response with the
\* task id.  The handler does not look at data
IngestData(data) ==
  /\ Len(submitted) < MaxTasks
  /\ LET id == NextTaskId
     IN  /\ broker' = Append(broker, Message(id, "upload_to_edge_impulse", <<data_id>>))
         /\ submitted' = Append(submitted, [data |-> data, task_id |-> id])
         /\ ingest_response' = Some([message |-> "Task submitted", task_id |-> id])
  /\ UNCHANGED <<api_vars, backend, samples, worker, ei_calls, status_response>>

\* get_task_status
GetTaskStatus(task_id) ==
  /\ status_response' = Some([task_id |-> task_id,
                              state   |-> StateOf(task_id),
                              status  |-> StateOf(task_id),
                              result  |-> IF Ready(task_id) THEN backend[task_id].result
                                          ELSE None])
  /\ UNCHANGED <<api_vars, broker, backend, samples, worker, ei_calls, submitted,
                 ingest_response>>

\* the worker takes an upload task from the queue; line 30: SessionLocal()
TakeTask(i) ==
  /\ worker.pc = "idle"
  /\ i \in 1..Len(broker)
  /\ broker[i].name = "upload_to_edge_impulse"
  /\ worker' = [WorkerIdle EXCEPT !.pc = "query", !.msg = Some(broker[i]),
                                  !.db_open = TRUE]
  /\ broker' = Remove(broker, i)
  /\ UNCHANGED <<api_vars, backend, samples, ei_calls, submitted, ingest_response,
                 status_response>>

\* lines 32-35: the sample is looked up; without it the task returns an error
QuerySample ==
  /\ worker.pc = "query"
  /\ LET rows == {r \in samples : r.id = worker.msg[1].args[1]}
     IN  IF rows = {}
         THEN worker' = [worker EXCEPT
                           !.retval = Some(TaskResult("error", Some("Sample not found"), None)),
                           !.pc = "finally"]
         ELSE worker' = [worker EXCEPT !.sample = Some(CHOOSE r \in rows : TRUE),
                                       !.pc = "upload"]
  /\ UNCHANGED <<api_vars, broker, backend, samples, ei_calls, submitted,
                 ingest_response, status_response>>

\* a variant of the upload step that goes on to the commit whether or not
\* the call raised
UploadSample_ignores_failure(outcome) ==
  /\ worker.pc = "upload"
  /\ LET id == worker.msg[1].id
     IN  ei_calls' = Store(ei_calls, id,
                           IF Len(CallsOf(id)) < MaxCalls
                           THEN Append(CallsOf(id), outcome) ELSE CallsOf(id))
  /\ worker' = [worker EXCEPT
                  !.sample = Some([worker.sample[1] EXCEPT
                                     !.uploaded_to_ei = TRUE,
                                     !.ei_sample_id = Some("ei-1")]),
                  !.pc = "commit"]
  /\ UNCHANGED <<api_vars, broker, backend, samples, submitted, ingest_response,
                 status_response>>

\* lines 37-47: ei_client.upload_sample(...), which returns the service's
\* answer or raises (network failure, non-2xx status)
UploadSample(outcome) ==
  /\ worker.pc = "upload"
  /\ LET id == worker.msg[1].id
     IN  ei_calls' = Store(ei_calls, id,
                           IF Len(CallsOf(id)) < MaxCalls
                           THEN Append(CallsOf(id), outcome) ELSE CallsOf(id))
  /\ IF outcome = "ok"
     THEN worker' = [worker EXCEPT
                       !.sample = Some([worker.sample[1] EXCEPT
                                          !.uploaded_to_ei = TRUE,
                                          !.ei_sample_id = Some("ei-1")]),
                       !.pc = "commit"]
     ELSE worker' = [worker EXCEPT !.exc = Some("upload_sample failed"),
                                   !.pc = "except"]
  /\ UNCHANGED <<api_vars, broker, backend, samples, submitted, ingest_response,
                 status_response>>

\* lines 50-59: db.commit(), check_auto_training.delay(), the result
CommitAndEnqueue ==
  /\ worker.pc = "commit"
  /\ samples' = {r \in samples : r.id # worker.sample[1].id} \cup {worker.sample[1]}
  /\ broker' = Append(broker, Message(NextTaskId, "check_auto_training", <<>>))
  /\ worker' = [worker EXCEPT
                  !.retval = Some(TaskResult("success", None, worker.sample[1].ei_sample_id)),
                  !.pc = "finally"]
  /\ UNCHANGED <<api_vars, backend, ei_calls, submitted, ingest_response,
                 status_response>>

\* a variant of the except clause that puts the task back in the queue
HandleException_requeues ==
  /\ worker.pc = "except"
  /\ broker' = Append(broker, worker.msg[1])
  /\ worker' = WorkerIdle
  /\ UNCHANGED <<api_vars, backend, samples, ei_calls, submitted, ingest_response,
                 status_response>>

\* lines 61-64: except Exception: db.rollback() and the error result
HandleException ==
  /\ worker.pc = "except"
  /\ worker' = [worker EXCEPT
                  !.sample = None,
                  !.retval = Some(TaskResult("error", worker.exc, None)),
                  !.exc = None,
                  !.pc = "finally"]
  /\ UNCHANGED <<api_vars, broker, backend, samples, ei_calls, submitted,
                 ingest_response, status_response>>

\* a variant of Return that stores no result
Return_stores_nothing ==
  /\ worker.pc = "finally"
  /\ worker' = WorkerIdle
  /\ UNCHANGED <<api_vars, broker, backend, samples, ei_calls, submitted,
                 ingest_response, status_response>>

\* lines 65-66 and the task decorator of line 25: db.close(); the function
\* has returned, so the task's state is SUCCESS and its result the value
Return ==
  /\ worker.pc = "finally"
  /\ backend' = Store(backend, worker.msg[1].id,
                      [state |-> "SUCCESS", result |-> worker.retval])
  /\ worker' = WorkerIdle
  /\ UNCHANGED <<api_vars, broker, samples, ei_calls, submitted, ingest_response,
                 status_response>>

\* the API process of this driver, and a database with or without the row
\* ingest_data is to save
InitQueue ==
  /\ settings \in {c \in SettingsChoices : c.EI_HMAC_KEY = None /\ Usable(c)}
  /\ converter = EdgeImpulseConverter(OrEmpty(settings.EI_HMAC_KEY))
  /\ _storage_client = None
  /\ constructed = <<>>
  /\ clock_ms = ClockOf(0)
  /\ pc = "idle"
  /\ request = None
  /\ trace = <<>>
  /\ ei_payload = None
  /\ json_str = None
  /\ filename = None
  /\ content = None
  /\ content_type = None
  /\ put_object = None
  /\ exc = None
  /\ response = None
  /\ signed = None
  /\ named = None
  /\ \E rows \in {{}, {NewSample(data_id)}} : InitQueueVars(rows)
  /\ InitOther

\* one step of the worker
WorkerStep ==
  \/ \E i \in 1..Len(broker) : TakeTask(i)
  \/ QuerySample
  \/ \E outcome \in {"ok", "raise"} : UploadSample(outcome)
  \/ CommitAndEnqueue
  \/ HandleException
  \/ Return

NextQueue ==
  \/ \E data \in IngestInputs : IngestData(data)
  \/ \E task_id \in 1..(MaxTasks + 1) : GetTaskStatus(task_id)
  \/ \E i \in 1..Len(broker) : TakeTask(i)
  \/ QuerySample
  \/ \E outcome \in {"ok", "raise"} : UploadSample(outcome)
  \/ CommitAndEnqueue
  \/ HandleException
  \/ Return

\* the worker is running: a step it can take is taken
SpecQueue == InitQueue /\ [][NextQueue]_vars /\ WF_vars(WorkerStep)

(***************************************************************************)
(* Properties.                                                             *)
(***************************************************************************)
\* the request in hand has a dimension mismatch
Mismatch ==
  request # None /\ Len(request[1].sensors) # Len(request[1].values[1])

\* the envelope in hand and its parts
Envelope == ei_payload[1]
ProtectedHeader == DictGet(Envelope, K_protected)
Payload == DictGet(Envelope, K_payload)
Signature == DictGet(Envelope, K_signature).s

\* C1: a request whose sensor count differs from the width of its first
\* values row makes convert raise a ValueError whose message carries the
\* sensor count and the row width, and no step of convert after the
\* dimension check has run: nothing is built, signed, named or encoded.
C1_MismatchRaisesBeforeAnyWork ==
  (Mismatch /\ pc # "convert") =>
     /\ exc # None
     /\ exc[1].type = "ValueError"
     /\ exc[1].msg.args = <<IntRepr(Len(request[1].sensors)),
                            IntRepr(Len(request[1].values[1]))>>
     /\ trace = <<"_validate_dimensions">>
     /\ ei_payload = None /\ json_str = None
     /\ filename = None
     /\ content = None /\ content_type = None

C1_Witness ==
  /\ Mismatch /\ pc = "except"
  /\ exc # None /\ exc[1].msg.args = <<<<"2">>, <<"1">>>>

\* C2: a request with a dimension mismatch is answered with a 4xx status,
\* and while it is handled the storage client is never asked for and no
\* upload or put is attempted.
C2_MismatchNeverReachesStorage ==
  Mismatch =>
     /\ \A i \in 1..Len(trace) :
          trace[i] \notin {"get_storage_client", "upload_file", "put_object"}
     /\ put_object = None
     /\ pc \notin {"get_storage_client", "upload_file", "respond"}
     /\ pc = "done" => /\ response # None
                       /\ response[1].status_code \in 400..499

C2_Witness ==
  /\ Mismatch /\ pc = "done"
  /\ response # None /\ response[1].status_code = 400

\* C3: with no HMAC key configured (absent or empty) every envelope built
\* has alg "none" and the 64-zero signature, and building it raises nothing.
C3_UnsignedMode ==
  ~TruthyStr(settings.EI_HMAC_KEY) =>
     /\ ei_payload # None =>
          /\ DictGet(ProtectedHeader, K_alg) = PyStr(AlgNone)
          /\ Signature = Zero64
          /\ Len(Signature) = 64
     /\ pc = "filename" => (ei_payload # None /\ exc = None)

C3_Witness ==
  /\ settings.EI_HMAC_KEY = None
  /\ ei_payload # None
  /\ pc = "done" /\ response # None /\ response[1].status_code = 201

\* every dict of a tree has its keys in strictly ascending order
RECURSIVE KeysSorted(_)
KeysSorted(o) ==
  /\ o.t = "dict" =>
       /\ \A i \in 1..(Len(o.c) - 1) : StrLess(o.c[i][1], o.c[i + 1][1])
       /\ \A i \in 1..Len(o.c) : KeysSorted(o.c[i][2])
  /\ o.t = "list" => \A i \in 1..Len(o.c) : KeysSorted(o.c[i])

\* a tree with the items of every dict put in key order: two trees are the
\* same logical structure when their images are equal
RECURSIVE Canon(_)
Canon(o) ==
  CASE o.t = "dict" ->
         PyDict(SortItems([i \in 1..Len(o.c) |-> <<o.c[i][1], Canon(o.c[i][2])>>]))
    [] o.t = "list" -> PyList([i \in 1..Len(o.c) |-> Canon(o.c[i])])
    [] OTHER -> o

LowerHex == {"0", "1", "2", "3", "4", "5", "6", "7", "8", "9",
             "a", "b", "c", "d", "e", "f"}

\* C4: with a key configured, alg is "HS256" and the signature is the
\* lowercase hex HMAC-SHA256 under the key of the signed text, which is the
\* whole envelope with the placeholder signature, written with the keys of
\* every dict sorted and with no whitespace; the signature has 64 characters.
\* (Stated of the envelope as _build_edge_impulse_payload returns it.)
C4_SignedMode ==
  (TruthyStr(settings.EI_HMAC_KEY) /\ pc = "filename") =>
     /\ ei_payload # None
     /\ DictGet(ProtectedHeader, K_alg) = PyStr(HS256)
     /\ json_str # None
     /\ Signature = Hex(HmacSha256(EncodeUtf8(settings.EI_HMAC_KEY[1]),
                                   EncodeUtf8(json_str[1])))
     /\ \A i \in 1..Len(json_str[1]) : json_str[1][i] \notin {" ", "\n"}
     /\ KeysSorted(JsonLoads(json_str[1]))
     /\ Canon(JsonLoads(json_str[1]))
          = Canon(DictSet(Envelope, K_signature, PyStr(Zero64)))
     /\ Len(Signature) = 64
     /\ \A i \in 1..Len(Signature) : Signature[i] \in LowerHex

C4_Witness ==
  /\ TruthyStr(settings.EI_HMAC_KEY)
  /\ pc = "filename"
  /\ Signature # Zero64
  /\ Len(request[1].values) = 2 /\ Len(request[1].sensors) = 2

\* C5: two conversions under the same key of the same payload with the same
\* protected header (so with the same issued-at time) carry the same
\* signature, whatever the clock reads and whatever was converted before.
C5_SigningIsDeterministic ==
  (signed # None /\ ei_payload # None) =>
     ((/\ signed[1].hmac_key = converter.hmac_key
       /\ signed[1].protected = ProtectedHeader
       /\ signed[1].payload = Payload)
        => signed[1].signature = Signature)

C5_Witness ==
  /\ signed # None /\ ei_payload # None
  /\ converter.hmac_key # <<>>
  /\ signed[1].protected = ProtectedHeader
  /\ signed[1].payload = Payload
  /\ signed[1].clock_ms # clock_ms
  /\ signed[1].signature = Signature

\* C6: the issued-at time of the protected header is the request's
\* timestamp whenever the request carries one, 0 included.
C6_IssuedAtIsRequestTimestamp ==
  (ei_payload # None /\ request[1].timestamp # None) =>
     DictGet(ProtectedHeader, K_iat) = PyInt(request[1].timestamp[1])

\* what a receiver decodes from the transmitted content
Decoded ==
  IF request[1].file_format = FileFormat_CBOR
  THEN CborLoads(content[1])
  ELSE JsonLoads(DecodeUtf8(content[1]))

\* the signature a receiver holding the key computes for a decoded envelope
Recomputed(key, envelope) ==
  Hex(HmacSha256(EncodeUtf8(key),
                 EncodeUtf8(JsonDumps(DictSet(envelope, K_signature, PyStr(Zero64)),
                                      CompactSorted))))

\* C7: in both output formats the signature found in the transmitted
\* content is the one a receiver recomputes from that content (placeholder
\* put back, keys sorted, no whitespace, same key), although the JSON text
\* transmitted is not the text that was signed.
\* (Stated of the content as convert returns it.)
C7_TransmittedSignatureVerifies ==
  (pc = "get_storage_client" /\ converter.hmac_key # <<>>) =>
     /\ content # None
     /\ DictGet(Decoded, K_signature).s = Recomputed(converter.hmac_key, Decoded)
     /\ DictGet(Decoded, K_signature).s # Zero64
     /\ request[1].file_format = FileFormat_JSON =>
          /\ DecodeUtf8(content[1]) # JsonDumps(Envelope, CompactSorted)
          /\ ~KeysSorted(JsonLoads(DecodeUtf8(content[1])))

C7_Witness ==
  /\ pc = "get_storage_client" /\ converter.hmac_key # <<>>
  /\ request[1].file_format = FileFormat_CBOR
  /\ Len(request[1].values) = 2
  /\ DictGet(Decoded, K_signature).s = Recomputed(converter.hmac_key, Decoded)

\* C8: in every envelope built, the payload has as many sensors as the
\* request has axes and every row of its values is as wide as that.
C8_PayloadDimensions ==
  ei_payload # None =>
     LET sensors == DictGet(Payload, K_sensors).c
         values  == DictGet(Payload, K_values).c
     IN  /\ Len(sensors) = Len(request[1].sensors)
         /\ Len(values) >= 1
         /\ \A r \in 1..Len(values) : Len(values[r].c) = Len(sensors)

C8_Witness ==
  /\ ei_payload # None
  /\ Len(DictGet(Payload, K_values).c) = 2
  /\ Len(DictGet(Payload, K_sensors).c) = 2

\* C9: the payload repeats the request: sensor i is the name and units of
\* axis i, values holds the request's readings row by row and column by
\* column, and device_name, device_type and interval_ms are the request's.
C9_PayloadIsProjection ==
  ei_payload # None =>
     LET req     == request[1]
         sensors == DictGet(Payload, K_sensors).c
         values  == DictGet(Payload, K_values).c
     IN  /\ Len(sensors) = Len(req.sensors)
         /\ \A i \in 1..Len(sensors) :
              /\ DictKeys(sensors[i]) = <<K_name, K_units>>
              /\ DictGet(sensors[i], K_name) = PyStr(req.sensors[i].name)
              /\ DictGet(sensors[i], K_units) = PyStr(req.sensors[i].units)
         /\ Len(values) = Len(req.values)
         /\ \A r \in 1..Len(values) :
              /\ Len(values[r].c) = Len(req.values[r])
              /\ \A c \in 1..Len(values[r].c) :
                   values[r].c[c] = PyFloat(req.values[r][c])
         /\ DictGet(Payload, K_device_name) = PyStr(req.device_name)
         /\ DictGet(Payload, K_device_type) = PyStr(req.device_type)
         /\ DictGet(Payload, K_interval_ms) = PyFloat(req.interval_ms)

C9_Witness ==
  /\ ei_payload # None
  /\ Len(request[1].sensors) = 2 /\ Len(request[1].values) = 2
  /\ DictGet(Payload, K_values).c[2].c[1] = PyFloat(49)
  /\ DictGet(Payload, K_values).c[1].c[2] = PyFloat(-49)

\* the set of keys of a dict, which has no key twice
KeySet(d) == {d.c[i][1] : i \in 1..Len(d.c)}
HasExactly(d, keys) ==
  d.t = "dict" /\ KeySet(d) = keys /\ Len(d.c) = Cardinality(keys)

K_issued_at == <<"i", "s", "s", "u", "e", "d", "_", "a", "t">>

\* the shape of an envelope, given the name of the issued-at field
EnvelopeShape(issued_at_key) ==
  /\ HasExactly(Envelope, {K_protected, K_signature, K_payload})
  /\ HasExactly(ProtectedHeader, {K_ver, K_alg, issued_at_key})
  /\ DictGet(ProtectedHeader, K_ver) = PyStr(V1)
  /\ DictGet(ProtectedHeader, K_alg) \in {PyStr(HS256), PyStr(AlgNone)}
  /\ DictGet(ProtectedHeader, issued_at_key).t = "int"
  /\ DictGet(Envelope, K_signature).t = "str"
  /\ HasExactly(Payload, {K_device_name, K_device_type, K_interval_ms,
                          K_sensors, K_values})

\* C10, as claimed: every envelope has exactly protected, signature and
\* payload; protected has exactly ver ("v1"), alg ("HS256" or "none") and
\* issued_at (an int); payload has exactly its five fields.
C10_EnvelopeShapeIssuedAt ==
  ei_payload # None => EnvelopeShape(K_issued_at)

\* C10, amended: the same, the issued-at field of protected being named iat.
C10_EnvelopeShape ==
  ei_payload # None => EnvelopeShape(K_iat)

C10_Witness ==
  /\ ei_payload # None
  /\ pc = "done"
  /\ DictGet(ProtectedHeader, K_alg) = PyStr(HS256)
  /\ DictGet(ProtectedHeader, K_iat) = PyInt(7)

(***************************************************************************)
(* Encoding round trip.                                                    *)
(***************************************************************************)
\* C11: for both output formats, decoding the content convert returns gives
\* back the envelope that was built and signed, equal in protected,
\* signature and payload, every sensor entry and every value included.
C11_EncodeDecodeRoundTrip ==
  pc = "get_storage_client" =>
     /\ content # None
     /\ Decoded = Envelope
     /\ DictGet(Decoded, K_protected) = ProtectedHeader
     /\ DictGet(Decoded, K_signature) = PyStr(Signature)
     /\ DictGet(Decoded, K_payload) = Payload

C11_Witness ==
  /\ pc = "get_storage_client"
  /\ request[1].file_format = FileFormat_CBOR
  /\ Len(request[1].sensors) = 2
  /\ Len(request[1].values) = 2
  /\ \E r \in 1..2, c \in 1..2 : request[1].values[r][c] < 0
  /\ converter.hmac_key # <<>>
  /\ Decoded = Envelope

(***************************************************************************)
(* Names of stored objects.                                                *)
(***************************************************************************)
\* the extension and the content type of a format
ExtensionOf(file_format) ==
  IF file_format = FileFormat_CBOR THEN <<"c", "b", "o", "r">> ELSE <<"j", "s", "o", "n">>
ContentTypeOf(file_format) ==
  IF file_format = FileFormat_CBOR THEN ApplicationCbor ELSE ApplicationJson

\* device_type, then "_label" for a label that satisfies has_label
Prefix(req, has_label) ==
  req.device_type \o (IF has_label THEN <<"_">> \o req.label[1] ELSE <<>>)

\* the name and content type a conversion of req at now_ms is to get
NameShape(req, now_ms, name, ctype, has_label) ==
  /\ name = Prefix(req, has_label) \o <<"_">> \o IntRepr(now_ms)
               \o <<".">> \o ExtensionOf(req.file_format)
  /\ ctype = ContentTypeOf(req.file_format)

\* the conversion in hand, once convert has returned
Converted == pc = "get_storage_client" /\ filename # None

\* the two conversions got one name, hence one storage key
SameName ==
  /\ named[1].filename = filename[1]
  /\ S3Key(S3StorageClient(settings), named[1].filename)
       = S3Key(S3StorageClient(settings), filename[1])

\* C12 as stated: the name is device_type, "_label" when a label is set, "_",
\* the millisecond timestamp, "." and the extension, with the matching
\* content type; and two conversions get the same name (the same storage
\* key) only if device type, label, format and millisecond timestamp agree.
C12_SameNameOnlyIfSameInputs ==
  Converted =>
     /\ NameShape(request[1], clock_ms, filename[1], content_type[1],
                  request[1].label # None)
     /\ (named # None /\ SameName) =>
          /\ named[1].request.device_type = request[1].device_type
          /\ named[1].request.label = request[1].label
          /\ named[1].request.file_format = request[1].file_format
          /\ named[1].now_ms = clock_ms

\* C12, amended: "_label" is there for a non-empty label only; and two
\* conversions get the same name (the same storage key) only if format,
\* millisecond timestamp and the text device_type[_label] agree.
C12_SameNameOnlyIfSamePrefix ==
  Converted =>
     /\ NameShape(request[1], clock_ms, filename[1], content_type[1],
                  TruthyStr(request[1].label))
     /\ (named # None /\ SameName) =>
          /\ Prefix(named[1].request, TruthyStr(named[1].request.label))
               = Prefix(request[1], TruthyStr(request[1].label))
          /\ named[1].request.file_format = request[1].file_format
          /\ named[1].now_ms = clock_ms

\* two conversions of different device types got one name
C12_Witness ==
  /\ Converted
  /\ named # None
  /\ SameName
  /\ named[1].request.device_type # request[1].device_type
  /\ named[1].request.label # request[1].label

(***************************************************************************)
(* The queued path.                                                        *)
(***************************************************************************)
\* the task is in the worker's hands, waits in the queue, has ended
InHand(task_id) == worker.msg # None /\ worker.msg[1].id = task_id
Queued(task_id) == \E i \in 1..Len(broker) : broker[i].id = task_id
Terminal(task_id) == StateOf(task_id) \in {"SUCCESS", "FAILURE"}

\* the task ids ingest_data has answered with
UploadTaskIds == {submitted[i].task_id : i \in 1..Len(submitted)}

\* the last external call of the task raised; every one of them raised
LastRaised(task_id) ==
  CallsOf(task_id) # <<>> /\ CallsOf(task_id)[Len(CallsOf(task_id))] = "raise"
AllRaised(task_id) ==
  CallsOf(task_id) # <<>>
    /\ \A i \in 1..Len(CallsOf(task_id)) : CallsOf(task_id)[i] = "raise"

\* C13 as stated: a task whose external call raised, once out of the
\* worker's hands, is in state RETRY and back in the queue as long as retry
\* budget remains, and the exception never became the value of a task that
\* returned normally (state SUCCESS).
C13_ExceptionMovesTaskToRetrying ==
  \A task_id \in UploadTaskIds :
     (LastRaised(task_id) /\ ~InHand(task_id)) =>
        /\ StateOf(task_id) # "SUCCESS"
        /\ Len(CallsOf(task_id)) <= task_max_retries =>
             (StateOf(task_id) = "RETRY" /\ Queued(task_id))

\* the delay before the n-th retry: the configured one, whatever n
RetryDelay(n) == task_default_retry_delay

\* the retry settings: the budget, and one delay for every retry
RetryPolicy(budget, delay) ==
  /\ task_max_retries = budget
  /\ \A n \in 1..task_max_retries : RetryDelay(n) = delay

C15_FailedTaskNeverSucceeded ==
  /\ \A task_id \in UploadTaskIds :
        AllRaised(task_id) => StateOf(task_id) # "SUCCESS"
  /\ (status_response # None /\ AllRaised(status_response[1].task_id)) =>
        /\ status_response[1].state # "SUCCESS"
        /\ status_response[1].status # "SUCCESS"

C17_SubmitDoesNotWait ==
  [][/\ ingest_response' # ingest_response =>
          LET task_id == ingest_response'[1].task_id
          IN  /\ ingest_response'[1] = [message |-> "Task submitted", task_id |-> task_id]
              /\ \E i \in 1..Len(broker') : broker'[i].id = task_id
              /\ task_id \notin DOMAIN backend'
              /\ ~Queued(task_id) /\ ~InHand(task_id) /\ task_id \notin DOMAIN backend
              /\ worker' = worker /\ backend' = backend /\ ei_calls' = ei_calls
     /\ (worker' # worker \/ backend' # backend) => ingest_response' = ingest_response
     /\ status_response' # status_response =>
          /\ status_response'[1].state = StateOf(status_response'[1].task_id)
          /\ backend' = backend
    ]_vars

C17_Witness ==
  /\ ingest_response # None
  /\ status_response # None
  /\ status_response[1].task_id = ingest_response[1].task_id
  /\ status_response[1].state = "SUCCESS"
  /\ status_response[1].result[1].status = "error"
  /\ ingest_response[1] = [message |-> "Task submitted", task_id |-> MaxTasks]

\* the data passes the request model and the converter's dimension check
ValidData(raw) == SensorDataRequest(raw) /\ _validate_dimensions(raw) = None

\* C18 as stated: data that fails validation never results in an enqueued
\* task, a task run, a stored result or an external call.
C18_InvalidDataNeverEnqueued ==
  \A i \in 1..Len(submitted) :
     ~ValidData(submitted[i].data) =>
        /\ ~Queued(submitted[i].task_id)
        /\ ~InHand(submitted[i].task_id)
        /\ submitted[i].task_id \notin DOMAIN backend
        /\ CallsOf(submitted[i].task_id) = <<>>

(***************************************************************************)
(* Failures of the synchronous path.                                       *)
(***************************************************************************)
\* the put_object calls made for the request in hand
PutCalls == Cardinality({i \in 1..Len(trace) : trace[i] = "put_object"})

\* the handler has answered
Answered == pc = "done" /\ response # None

\* C19: one convert_and_upload request makes at most one put_object call;
\* when that call fails, the handler goes to its except clause and answers
\* with an error; it answers 201 only if the one call it made stored the
\* object.
C19_OneCallNoRetry ==
  /\ PutCalls <= 1
  /\ (put_object # None /\ ~put_object[1].stored) =>
        /\ pc \in {"except", "done"}
        /\ Answered => response[1].status_code = 500
  /\ (Answered /\ response[1].status_code = 201) =>
        /\ PutCalls = 1
        /\ put_object # None
        /\ put_object[1].stored

C19_Witness ==
  /\ Answered
  /\ PutCalls = 1
  /\ ~put_object[1].stored
  /\ response[1].status_code = 500

\* what made the request fail: its own data (rejected by the request model
\* before the handler ran, or by the converter's dimension check), or the
\* storage configuration or service
DataFailure == trace = <<>> \/ trace[Len(trace)] = "_validate_dimensions"
UpstreamFailure ==
  trace # <<>> /\ trace[Len(trace)] \in {"get_storage_client", "put_object"}

\* C20 as stated: a failure caused by the request's data is answered with a
\* 4xx status and never with 500; a failure of the storage configuration
\* or service is answered with 500 and never with 400.
C20_ErrorKindTellsCause ==
  (Answered /\ response[1].status_code # 201) =>
     /\ DataFailure => response[1].status_code \in 400..499
     /\ UpstreamFailure => response[1].status_code = 500
     /\ DataFailure \/ UpstreamFailure

(***************************************************************************)
(* Frames without axes or without readings                                 *)
(***************************************************************************)
EmptyFrame(raw) == raw.sensors = <<>> \/ raw.values = <<>>

\* C24: a frame with no axes or no readings is always rejected with a
\* validation failure: the handler never holds such a request, a request
\* that never reached the handler was answered 422, and every envelope,
\* text and file content built comes from a request with at least one axis
\* and one row.
C24_EmptyFrameRejected ==
  /\ request # None => ~EmptyFrame(request[1])
  /\ (pc = "done" /\ request = None) =>
        /\ response # None
        /\ response[1].status_code = 422
        /\ response[1].detail.args # <<>>
        /\ ei_payload = None /\ json_str = None /\ content = None
  /\ (ei_payload # None \/ json_str # None \/ content # None) =>
        /\ request # None
        /\ ei_payload # None
        /\ DictGet(Payload, K_sensors).c # <<>>
        /\ DictGet(Payload, K_values).c # <<>>

C24_Witness ==
  /\ pc = "done" /\ request = None
  /\ response # None
  /\ response[1].status_code = 422
  /\ response[1].detail.args = <<K_sensors, K_values>>

(***************************************************************************)
(* UploadMetadata (common/models/edge_impulse.py).  A keyword argument is  *)
(* None when it is not passed and Some(v) when it is passed with value v;  *)
(* for the two Optional[str] fields v is itself None or Some(text).        *)
(***************************************************************************)
DatasetType == {"training", "testing"}

Default_api_key == "ei_1df4"
Default_hmac_key == "e45689eb"

\* the keyword arguments callers pass
MetadataKwargs ==
  [api_key      : {None, Some("ei_2")},
   hmac_key     : {None, Some("k1")},
   file_name    : {None, Some(None), Some(Some("")), Some(Some("a.json"))},
   label        : {None, Some(None), Some(Some("")), Some(Some("idle"))},
   no_label     : {None, Some(FALSE), Some(TRUE)},
   dataset_type : {None, Some("training"), Some("testing"), Some("validation")}]

\* the value of a field: the argument when passed, else the default
FieldValue(arg, default) == IF arg = None THEN default ELSE arg[1]

\* a variant of enforce_no_label_logic that fires when either field is unset
enforce_no_label_logic_either(self) ==
  IF self.file_name = None \/ self.label = None
  THEN [self EXCEPT !.no_label = TRUE]
  ELSE self

\* the model validator, mode "after"
enforce_no_label_logic(self) ==
  IF self.file_name = None /\ self.label = None
  THEN [self EXCEPT !.no_label = TRUE]
  ELSE self

\* UploadMetadata(**kwargs): the instance, or None when field validation
\* fails (dataset_type outside the enum)
UploadMetadata(kwargs) ==
  IF FieldValue(kwargs.dataset_type, "training") \notin DatasetType
  THEN None
  ELSE Some(enforce_no_label_logic(
         [api_key      |-> FieldValue(kwargs.api_key, Default_api_key),
          hmac_key     |-> FieldValue(kwargs.hmac_key, Default_hmac_key),
          file_name    |-> FieldValue(kwargs.file_name, None),
          label        |-> FieldValue(kwargs.label, None),
          no_label     |-> FieldValue(kwargs.no_label, FALSE),
          dataset_type |-> FieldValue(kwargs.dataset_type, "training")]))

\* a caller constructs an UploadMetadata
Construct(kwargs) ==
  /\ metadata' = Some([kwargs |-> kwargs, instance |-> UploadMetadata(kwargs)])
  /\ UNCHANGED <<api_vars_but_other, queue_vars, config_response,
                 lifespan_vars, training_vars>>

InitMetadata == InitName

NextMetadata == \E kwargs \in MetadataKwargs : Construct(kwargs)

SpecMetadata == InitMetadata /\ [][NextMetadata]_vars

\* C27: every constructed UploadMetadata whose file_name and label are both
\* None has no_label = TRUE whatever was passed for no_label; when file_name
\* or label is set, no_label is the value passed, or FALSE when none was.
C27_NoLabelForced ==
  (metadata # None /\ metadata[1].instance # None) =>
     LET self   == metadata[1].instance[1]
         kwargs == metadata[1].kwargs
     IN  IF self.file_name = None /\ self.label = None
         THEN self.no_label = TRUE
         ELSE self.no_label = FieldValue(kwargs.no_label, FALSE)

C27_Witness ==
  /\ metadata # None /\ metadata[1].instance # None
  /\ metadata[1].kwargs.no_label = Some(FALSE)
  /\ metadata[1].kwargs.file_name = Some(None)
  /\ metadata[1].kwargs.label = None
  /\ metadata[1].instance[1].no_label = TRUE

(***************************************************************************)
(* A driver for readings that are not finite.  The request body is parsed  *)
(* by json.loads, which reads NaN, Infinity and -Infinity, and the float   *)
(* fields of SensorDataRequest accept them.                                *)
(***************************************************************************)
NonFiniteRequests ==
  [device_name : {<<"d", "1">>},
   device_type : {<<"i", "m", "u">>},
   interval_ms : {100},
   sensors     : {<<Axis(1)>>},
   values      : {[r \in 1..Len(v) |-> <<v[r]>>] :
                    v \in UNION {[1..n -> {49, NaN, Infinity, -Infinity}] :
                                   n \in 1..2}},
   timestamp   : {Some(7)},
   label       : {None},
   file_format : {FileFormat_JSON, FileFormat_CBOR}]

InitNonFinite ==
  /\ Init
  /\ settings.EI_HMAC_KEY = Some(<<"k", "1">>)
  /\ Usable(settings)

NextNonFinite ==
  \/ \E raw \in NonFiniteRequests : Receive(raw)
  \/ Validate
  \/ Build
  \/ GenerateFilename
  \/ Encode
  \/ GetStorageClient
  \/ \E outcome \in {"ok", "ClientError", "Exception"} : UploadFile(outcome)
  \/ Respond
  \/ Except
  \/ Finish

SpecNonFinite == InitNonFinite /\ [][NextNonFinite]_vars

\* the request in hand carries a reading that is not finite
HasNonFinite ==
  /\ request # None
  /\ \E r \in 1..Len(request[1].values) :
       \E c \in 1..Len(request[1].values[r]) : ~IsFinite(request[1].values[r][c])

\* C25: signing a payload that holds a non-finite reading fails: no
\* envelope and no signature is produced for it, nothing is stored, and
\* the request is answered with a 5xx status.
C25_NonFiniteNeverSigned ==
  HasNonFinite =>
     /\ ei_payload = None
     /\ put_object = None
     /\ response # None => response[1].status_code \in 500..599

(***************************************************************************)
(* The application as a whole: the lifespan context manager                *)
(* (app/core/lifespan.py), the session dependency                          *)
(* (app/core/dependencies.py), and the two handlers that ask for the       *)
(* storage client, convert_and_upload and get_storage_config               *)
(* (app/api/storage_routes.py).  The handlers are coroutines and           *)
(* get_storage_client awaits nothing, so a call of it is one step.  The    *)
(* repository assembles two applications: main.py mounts the storage and   *)
(* converter routers, factory.py mounts the converter and ingestion        *)
(* routers under this lifespan; the driver serves the routes of both.      *)
(***************************************************************************)
\* the storage environments the process is started in: each of the four
\* required settings present, absent or empty, keys of several lengths,
\* and an endpoint boto3 refuses
AppSettingsChoices ==
  [EI_HMAC_KEY     : {None},
   S3_ENDPOINT_URL : {None, Some(<<"h", "t", "t", "p", ":", "/", "/", "s", "3">>),
                      Some(<<"s", "3", ":", "9">>)},
   S3_BUCKET       : {None, Some(<<"e", "i">>)},
   S3_ACCESS_KEY   : {None, Some(<<>>), Some(<<"A", "K">>),
                      Some(<<"A", "K", "I", "A", "1", "2", "3", "4">>),
                      Some(<<"A", "K", "I", "A", "0", "X", "1", "2", "3", "4">>)},
   S3_SECRET_KEY   : {None, Some(<<"S", "K">>),
                      Some(<<"m", "i", "n", "i", "o", "a", "d", "m", "i", "n">>)},
   S3_BASE_PATH    : {<<"e", "d", "g", "e", "-", "i", "m", "p", "u", "l", "s", "e", "-", "d", "a", "t", "a">>}]

\* the one frame clients post in this driver
AppRequests ==
  {raw \in RawRequests :
     /\ Len(raw.sensors) = 1
     /\ raw.values = ValuesOf(<<1>>)
     /\ raw.timestamp = Some(7) /\ raw.label = None
     /\ raw.file_format = FileFormat_JSON}

\* s[:n] and s[-n:]
Prefix_n(s, n) == SubSeq(s, 1, IF Len(s) < n THEN Len(s) ELSE n)
Suffix_n(s, n) == SubSeq(s, IF Len(s) < n THEN 1 ELSE Len(s) - n + 1, Len(s))

Stars == <<"*", "*", "*", "*">>

\* get_storage_config, lines 117-126: key[:4] + "****" + key[-4:], or
\* "****" when the setting is empty
Masked(key, setting) ==
  IF TruthyStr(setting) THEN Prefix_n(key, 4) \o Stars \o Suffix_n(key, 4)
  ELSE Stars

\* the process starts: nothing has run yet
InitApp ==
  /\ settings \in AppSettingsChoices
  /\ converter = EdgeImpulseConverter(OrEmpty(settings.EI_HMAC_KEY))
  /\ _storage_client = None
  /\ constructed = <<>>
  /\ clock_ms = ClockOf(0)
  /\ pc = "idle"
  /\ request = None
  /\ trace = <<>>
  /\ ei_payload = None
  /\ json_str = None
  /\ filename = None
  /\ content = None
  /\ content_type = None
  /\ put_object = None
  /\ exc = None
  /\ response = None
  /\ signed = None
  /\ named = None
  /\ InitQueueVars({})
  /\ metadata = None
  /\ config_response = None
  /\ lifespan_pc = "start"
  /\ session = "absent"
  /\ session_seen = None
  /\ jobs = {}
  /\ outbound = None

handler_vars == <<settings, converter, _storage_client, constructed, clock_ms,
                  pc, request, trace, locals, signed, named, queue_vars,
                  metadata, training_vars>>

\* lifespan, line 8: app.state.session = aiohttp.ClientSession(), then yield
Startup ==
  /\ lifespan_pc = "start"
  /\ session' = "open"
  /\ lifespan_pc' = "serving"
  /\ UNCHANGED <<handler_vars, config_response, session_seen>>

\* lifespan, line 10: the server shuts down, the context manager is resumed
\* after its yield and closes the session
Shutdown ==
  /\ lifespan_pc = "serving"
  /\ pc = "idle"
  /\ session' = "closed"
  /\ lifespan_pc' = "exited"
  /\ UNCHANGED <<handler_vars, config_response, session_seen>>

\* lifespan, line 9: the body of the async with raises (the lifespan task
\* is cancelled, or receiving the shutdown message fails) and the exception
\* is thrown into the generator at its yield; no try/finally surrounds the
\* yield, so line 10 does not run
ExitByException ==
  /\ lifespan_pc = "serving"
  /\ pc = "idle"
  /\ lifespan_pc' = "exited"
  /\ UNCHANGED <<handler_vars, config_response, session, session_seen>>

\* requests are served between startup and exit
Serving == lifespan_pc = "serving"

\* get_session: request.app.state.session
GetSession ==
  /\ Serving
  /\ session_seen' = Some(session)
  /\ UNCHANGED <<handler_vars, config_response, lifespan_pc, session>>

\* GET /storage/config
GetStorageConfig ==
  /\ Serving
  /\ LET call == get_storage_client(_storage_client, settings)
     IN  /\ _storage_client' = call.client
         /\ constructed' = constructed \o call.made
         /\ config_response' =
              IF call.raised = None
              THEN LET client == call.client[1]
                   IN  Some(HttpResponse(200, NoMessage,
                         Some([endpoint   |-> client.endpoint_url,
                               bucket     |-> client.bucket,
                               access_key |-> Masked(client._access_key[1],
                                                     settings.S3_ACCESS_KEY),
                               secret_key |-> Masked(client._secret_key[1],
                                                     settings.S3_SECRET_KEY),
                               base_path  |-> client.base_path])))
              ELSE IF call.raised[1].type = "HTTPException"
              THEN Some(HttpResponse(500, call.raised[1].msg, None))
              ELSE Some(HttpResponse(500,
                     [template |-> "Failed to get storage configuration: "
                                     \o call.raised[1].msg.template,
                      args     |-> call.raised[1].msg.args], None))
  /\ UNCHANGED <<settings, converter, clock_ms, pc, request, trace, locals,
                 signed, named, queue_vars, metadata, lifespan_vars,
                 training_vars>>

NextApp ==
  \/ Startup
  \/ Shutdown
  \/ ExitByException
  \/ GetSession
  \/ GetStorageConfig
  \/ Serving /\ \E raw \in AppRequests : Receive(raw)
  \/ Serving /\ Validate
  \/ Serving /\ Build
  \/ Serving /\ GenerateFilename
  \/ Serving /\ Encode
  \/ Serving /\ GetStorageClient
  \/ Serving /\ \E outcome \in {"ok", "ClientError", "Exception"} : UploadFile(outcome)
  \/ Serving /\ Respond
  \/ Serving /\ Except
  \/ Serving /\ Finish

SpecApp == InitApp /\ [][NextApp]_vars

\* one of the four required storage settings is absent or empty
RequiredStorageSettings ==
  {"S3_ENDPOINT_URL", "S3_BUCKET", "S3_ACCESS_KEY", "S3_SECRET_KEY"}

Missing(cfg) ==
  \E f \in RequiredStorageSettings : cfg[f] = None \/ cfg[f] = Some(<<>>)

\* C21: with an incomplete storage configuration every use of
\* get_storage_client fails with status 500, the first one and the later
\* ones: no client is ever constructed, _storage_client stays unset,
\* convert_and_upload never gets as far as the upload and answers 500, and
\* get_storage_config answers 500.
C21_IncompleteConfigFails ==
  Missing(settings) =>
     /\ _storage_client = None
     /\ constructed = <<>>
     /\ pc \notin {"upload_file", "respond"}
     /\ put_object = None
     /\ (\E i \in 1..Len(trace) : trace[i] = "get_storage_client") =>
           \/ /\ pc = "except"
              /\ exc # None /\ exc[1].type = "HTTPException"
              /\ StatusFor(exc[1]) = 500
           \/ /\ pc = "done"
              /\ response # None /\ response[1].status_code = 500
     /\ config_response # None => config_response[1].status_code = 500

C21_Witness ==
  /\ settings.S3_SECRET_KEY = None
  /\ settings.S3_ENDPOINT_URL # None /\ settings.S3_BUCKET # None
  /\ TruthyStr(settings.S3_ACCESS_KEY)
  /\ config_response # None /\ config_response[1].status_code = 500
  /\ pc = "done" /\ response # None /\ response[1].status_code = 500
  /\ \E i \in 1..Len(trace) : trace[i] = "get_storage_client"

\* C22: the storage client is a singleton of the process: whatever the
\* handlers do and in whatever order, at most one S3StorageClient is ever
\* constructed, only under a complete configuration, and _storage_client,
\* which every call returns, is that one object from then on.
C22_StorageClientSingleton ==
  /\ Len(constructed) <= 1
  /\ constructed # <<>> => ~Missing(settings)
  /\ _storage_client = (IF constructed = <<>> THEN None
                        ELSE Some(constructed[1]))
  /\ pc \in {"upload_file", "respond"} => _storage_client # None
  /\ (config_response # None /\ config_response[1].status_code = 200) =>
        /\ _storage_client # None
        /\ config_response[1].body[1].endpoint = _storage_client[1].endpoint_url

C22_Witness ==
  /\ Len(constructed) = 1
  /\ config_response # None /\ config_response[1].status_code = 200
  /\ pc = "done" /\ response # None /\ response[1].status_code = 201

\* the lifespan has been left
Exited == lifespan_pc = "exited"

\* C23: the shared session is opened once at start and closed on every way
\* out of the lifespan, and while requests are served get_session returns
\* an open session.
C23_SessionClosedOnEveryExit ==
  /\ Exited => session = "closed"
  /\ Serving => session = "open"
  /\ session_seen # None => session_seen[1] = "open"

\* the characters of s from position i on contain t
Contains(s, t) ==
  \E i \in 1..(Len(s) - Len(t) + 1) : SubSeq(s, i, i + Len(t) - 1) = t

\* a key cannot be read back from what is shown of it: the key is not part
\* of it, and a key that differs from it in one character is shown the same
Unreadable(key, shown) ==
  /\ ~Contains(shown, key)
  /\ \E i \in 1..Len(key) : \E ch \in {"#", "%"} :
       /\ ch # key[i]
       /\ Masked([key EXCEPT ![i] = ch], Some(key)) = shown

\* C26: get_storage_config returns the access key and the secret key masked:
\* whatever their length, neither key can be read back from the response.
C26_KeysMasked ==
  (config_response # None /\ config_response[1].status_code = 200) =>
     /\ Unreadable(settings.S3_ACCESS_KEY[1], config_response[1].body[1].access_key)
     /\ Unreadable(settings.S3_SECRET_KEY[1], config_response[1].body[1].secret_key)

(***************************************************************************)
(* The effects of the upload task                                          *)
(***************************************************************************)
\* the check_auto_training messages waiting in a queue
ChecksIn(q) == {i \in 1..Len(q) : q[i].name = "check_auto_training"}

\* the upload tasks that got past the commit
Committed ==
  {id \in DOMAIN backend :
     backend[id].result # None /\ backend[id].result[1].status = "success"}
  \cup (IF worker.pc = "finally" /\ worker.retval[1].status = "success"
        THEN {worker.msg[1].id} ELSE {})

\* the task's upload_sample call has returned without raising
UploadReturned(id) ==
  CallsOf(id) # <<>> /\ CallsOf(id)[Len(CallsOf(id))] = "ok"

\* C29: the upload task marks the sample uploaded and enqueues
\* check_auto_training only after upload_sample has returned without
\* raising; when the sample is missing or the call raises, the stored row
\* is left as it was, no task is enqueued and the result has status
\* "error"; and on every path the database session is closed when the task
\* is over.
C29_UploadEffectsOnlyOnSuccess ==
  /\ [](/\ \A r \in samples :
             r.uploaded_to_ei => \E id \in DOMAIN ei_calls : UploadReturned(id)
        /\ Cardinality(ChecksIn(broker)) = Cardinality(Committed)
        /\ \A id \in Committed : UploadReturned(id)
        /\ \A id \in DOMAIN backend :
             /\ backend[id].result # None
             /\ ~UploadReturned(id) => backend[id].result[1].status = "error"
        /\ worker.db_open <=> worker.pc # "idle")
  /\ [][/\ (worker' # worker /\
               (samples' # samples \/ Len(broker') > Len(broker))) =>
             worker.pc = "commit" /\ UploadReturned(worker.msg[1].id)
        /\ (worker.pc \in {"query", "except"} /\ worker'.pc = "finally") =>
             /\ samples' = samples
             /\ broker' = broker
             /\ worker'.retval[1].status = "error"
        /\ (worker.pc = "finally" /\ worker' # worker) =>
             /\ ~worker'.db_open
             /\ worker.msg[1].id \in DOMAIN backend']_vars

C29_Witness ==
  /\ worker.pc = "idle"
  /\ \E id \in DOMAIN backend :
       /\ CallsOf(id) = <<"raise">>
       /\ backend[id].result[1].status = "error"
  /\ \E id \in DOMAIN backend :
       /\ CallsOf(id) = <<"ok">>
       /\ backend[id].result[1].status = "success"
  /\ Cardinality(ChecksIn(broker)) = 1

(***************************************************************************)
(* The training tasks of worker/tasks/ei_task.py: fetch_virtual_device_data,*)
(* check_auto_training, trigger_training, monitor_training and             *)
(* deploy_model, next to the upload task above.  One worker slot runs the  *)
(* tasks one at a time, in the order they were sent; a task other than the *)
(* upload task is one step.  The rows of the DataSample table get the ids  *)
(* 1, 2, ... and the rows of the TrainingJob table likewise.  Nothing in   *)
(* this driver reads the results of the training tasks, and the result     *)
(* backend is left out for them.                                           *)
(***************************************************************************)
\* settings.AUTO_TRAINING_THRESHOLD, as the environment sets it
AUTO_TRAINING_THRESHOLD == 2

\* an outbound call: the service called, the job it is about (0 for none),
\* how it answered, and the number of samples it carried
Call(call, job, answer, n) == [call |-> call, job |-> job, answer |-> answer, n |-> n]

\* db.query(DataSample).filter(DataSample.uploaded_to_ei == True).count()
UploadedCount == Cardinality({r \in samples : r.uploaded_to_ei})

\* the answers of the training status call that do not end the training
Unfinished == {"pending", "running"}

\* the id of a new task message: one that no message waiting or in hand and
\* no stored result carries
FreshTaskId ==
  CHOOSE n \in 1..(Cardinality(IssuedIds) + 1) :
    n \notin IssuedIds /\ \A m \in 1..(n - 1) : m \in IssuedIds

\* the worker is free and the message at the head of the queue is a name task
HeadIs(name) ==
  /\ worker.pc = "idle"
  /\ broker # <<>>
  /\ broker[1].name = name

\* fetch_virtual_device_data, lines 211-266, sent by a scheduler: the
\* device answers with n samples, which are stored, and an upload task is
\* sent for every sample not uploaded yet.  (When the HTTP call raises the
\* session is rolled back and nothing is sent: no change of state.)  The
\* scheduler's period is long: the queue has drained when the task is sent
FetchVirtualDeviceData(n) ==
  /\ worker.pc = "idle"
  /\ broker = <<>>
  /\ Cardinality(samples) + n <= MaxSamples
  /\ LET first == Cardinality(samples) + 1
         rows  == samples \cup {NewSample(id) : id \in first..(first + n - 1)}
         todo  == {r.id : r \in {s \in rows : ~s.uploaded_to_ei}}
         base  == FreshTaskId
         msgs  == SelectSeq([k \in 1..MaxSamples |-> k], LAMBDA k : k \in todo)
     IN  /\ samples' = rows
         /\ broker' = broker \o
              [k \in 1..Len(msgs) |->
                 Message(base + k - 1, "upload_to_edge_impulse", <<msgs[k]>>)]
  /\ outbound' = Some(Call("virtual_device", 0, "ok", n))
  /\ UNCHANGED <<api_vars_but_other, metadata, config_response, lifespan_vars,
                 jobs, backend, worker, ei_calls, submitted, ingest_response,
                 status_response>>

\* check_auto_training, lines 69-93
check_auto_training ==
  /\ HeadIs("check_auto_training")
  /\ broker' = IF UploadedCount >= AUTO_TRAINING_THRESHOLD
               THEN Append(Tail(broker),
                           Message(FreshTaskId, "trigger_training", <<"auto">>))
               ELSE Tail(broker)
  /\ outbound' = None
  /\ UNCHANGED <<api_vars_but_other, metadata, config_response, lifespan_vars,
                 jobs, backend, worker, samples, ei_calls, submitted,
                 ingest_response, status_response>>

\* trigger_training, lines 96-134: the training is started, the job row is
\* added with status "pending" and monitor_training is sent for it; or the
\* call raises and the session is rolled back
trigger_training(outcome) ==
  /\ HeadIs("trigger_training")
  /\ outbound' = Some(Call("trigger_training", 0, outcome, UploadedCount))
  /\ IF outcome = "ok"
     THEN LET job == [id            |-> Cardinality(jobs) + 1,
                      status        |-> "pending",
                      triggered_by  |-> broker[1].args[1],
                      samples_count |-> UploadedCount]
          IN  /\ jobs' = jobs \cup {job}
              /\ broker' = Append(Tail(broker),
                                  Message(FreshTaskId, "monitor_training", <<job.id>>))
     ELSE /\ jobs' = jobs
          /\ broker' = Tail(broker)
  /\ UNCHANGED <<api_vars_but_other, metadata, config_response, lifespan_vars,
                 backend, worker, samples, ei_calls, submitted, ingest_response,
                 status_response>>

\* a variant of monitor_training that sends deploy_model whenever the
\* training is over, completed or failed
monitor_training_deploys_failed(answer) ==
  /\ HeadIs("monitor_training")
  /\ LET job_id == broker[1].args[1]
         rows   == {j \in jobs : j.id = job_id}
     IN  IF rows = {}
         THEN /\ answer = "raise"
              /\ broker' = Tail(broker)
              /\ outbound' = None
              /\ jobs' = jobs
         ELSE LET job == CHOOSE j \in rows : TRUE
              IN  /\ outbound' = Some(Call("get_training_status", job_id, answer, 0))
                  /\ jobs' = IF answer \in Unfinished \cup {"completed", "failed"}
                             THEN (jobs \ {job}) \cup {[job EXCEPT !.status = answer]}
                             ELSE jobs
                  /\ broker' =
                       IF answer \in {"completed", "failed"}
                       THEN Append(Tail(broker),
                                   Message(FreshTaskId, "deploy_model", <<job_id>>))
                       ELSE IF answer \in Unfinished
                       THEN Append(Tail(broker),
                                   MessageAfter(FreshTaskId, "monitor_training",
                                                <<job_id>>, 30))
                       ELSE Tail(broker)
  /\ UNCHANGED <<api_vars_but_other, metadata, config_response, lifespan_vars,
                 backend, worker, samples, ei_calls, submitted, ingest_response,
                 status_response>>

\* monitor_training, lines 137-182.  The job row is looked up; without it
\* the task returns None.  The status call answers with a status or
\* raises: "completed" is committed and deploy_model is sent, "failed" is
\* committed, "pending" and "running" are committed and the task sends
\* itself again with a countdown of 30 seconds, any other status is
\* neither committed nor followed up
monitor_training(answer) ==
  /\ HeadIs("monitor_training")
  /\ LET job_id == broker[1].args[1]
         rows   == {j \in jobs : j.id = job_id}
     IN  IF rows = {}
         THEN /\ answer = "raise"
              /\ broker' = Tail(broker)
              /\ outbound' = None
              /\ jobs' = jobs
         ELSE LET job == CHOOSE j \in rows : TRUE
              IN  /\ outbound' = Some(Call("get_training_status", job_id, answer, 0))
                  /\ jobs' = IF answer \in Unfinished \cup {"completed", "failed"}
                             THEN (jobs \ {job}) \cup {[job EXCEPT !.status = answer]}
                             ELSE jobs
                  /\ broker' =
                       IF answer = "completed"
                       THEN Append(Tail(broker),
                                   Message(FreshTaskId, "deploy_model", <<job_id>>))
                       ELSE IF answer \in Unfinished
                       THEN Append(Tail(broker),
                                   MessageAfter(FreshTaskId, "monitor_training",
                                                <<job_id>>, 30))
                       ELSE Tail(broker)
  /\ UNCHANGED <<api_vars_but_other, metadata, config_response, lifespan_vars,
                 backend, worker, samples, ei_calls, submitted, ingest_response,
                 status_response>>

\* deploy_model, lines 185-208
deploy_model(outcome) ==
  /\ HeadIs("deploy_model")
  /\ LET job_id == broker[1].args[1]
     IN  IF \E j \in jobs : j.id = job_id
         THEN outbound' = Some(Call("deploy_model", job_id, outcome, 0))
         ELSE outcome = "raise" /\ outbound' = None
  /\ broker' = Tail(broker)
  /\ UNCHANGED <<api_vars_but_other, metadata, config_response, lifespan_vars,
                 jobs, backend, worker, samples, ei_calls, submitted,
                 ingest_response, status_response>>

\* a job id that has no row
MissingJob == 0

\* an operator sends monitor_training for a job that has no row, while
\* nothing else is waiting
SendMonitorTraining ==
  /\ broker = <<>>
  /\ broker' = Append(broker, Message(FreshTaskId, "monitor_training", <<MissingJob>>))
  /\ UNCHANGED <<api_vars, backend, samples, worker, ei_calls, submitted,
                 ingest_response, status_response>>

\* the answers of the training status call: the four statuses the task
\* tells apart, another one, and an exception
StatusAnswers == {"pending", "running", "completed", "failed", "cancelled", "raise"}

InitTraining ==
  /\ InitQueue
  /\ samples = {}

NextTraining ==
  \/ \E n \in 1..MaxSamples : FetchVirtualDeviceData(n)
  \/ SendMonitorTraining
  \/ TakeTask(1)
  \/ QuerySample
  \/ \E outcome \in {"ok", "raise"} : UploadSample(outcome)
  \/ CommitAndEnqueue
  \/ HandleException
  \/ Return
  \/ check_auto_training
  \/ \E outcome \in {"ok", "raise"} : trigger_training(outcome)
  \/ \E answer \in StatusAnswers : monitor_training(answer)
  \/ \E outcome \in {"ok", "raise"} : deploy_model(outcome)

SpecTraining == InitTraining /\ [][NextTraining]_vars

(***************************************************************************)
(* The monitoring chain and the automatic training                         *)
(***************************************************************************)
\* the messages of a queue that are name tasks for a job
For(q, name, job_id) ==
  {i \in 1..Len(q) : q[i].name = name /\ q[i].args = <<job_id>>}

\* this step is a run of monitor_training
MonitorStep == HeadIs("monitor_training") /\ broker' # broker

\* the messages a run of the task at the head has sent
Sent == SubSeq(broker', Len(broker), Len(broker'))

\* the status the run has observed: none when it made no status call
Observed == IF outbound' = None THEN "none" ELSE outbound'[1].answer

\* C28: a run of monitor_training sends itself again, with a countdown of
\* 30 seconds, exactly when it observed pending or running, sends
\* deploy_model exactly when it observed completed, and sends nothing when
\* it observed failed or another status, when the job is missing and when
\* the status call raised.  So along the chain of a job at most one of its
\* monitor_training and deploy_model messages is alive, deploy_model is
\* sent only by the run that observed completed, and once completed or
\* failed is stored no monitor_training is left for the job.
C28_MonitorChain ==
  /\ [](\A j \in jobs :
          /\ Cardinality(For(broker, "monitor_training", j.id))
               + Cardinality(For(broker, "deploy_model", j.id)) <= 1
          /\ For(broker, "deploy_model", j.id) # {} => j.status = "completed"
          /\ For(broker, "monitor_training", j.id) # {} => j.status \in Unfinished
          /\ j.status \in {"completed", "failed"} =>
               For(broker, "monitor_training", j.id) = {})
  /\ [][/\ MonitorStep =>
             LET job_id == broker[1].args[1]
             IN  /\ broker' = Tail(broker) \o Sent
                 /\ Len(Sent) <= 1
                 /\ Observed \in Unfinished <=>
                      /\ Len(Sent) = 1
                      /\ Sent[1] = MessageAfter(Sent[1].id, "monitor_training",
                                                <<job_id>>, 30)
                 /\ Observed = "completed" <=>
                      /\ Len(Sent) = 1
                      /\ Sent[1] = Message(Sent[1].id, "deploy_model", <<job_id>>)
                 /\ Observed \notin Unfinished \cup {"completed"} => Sent = <<>>
        /\ \A j \in jobs :
             /\ Cardinality(For(broker', "deploy_model", j.id))
                  > Cardinality(For(broker, "deploy_model", j.id)) =>
                  /\ MonitorStep
                  /\ broker[1].args = <<j.id>>
                  /\ j.status \in Unfinished
                  /\ Observed = "completed"
             /\ j.status \in {"completed", "failed"} => j \in jobs']_vars

C28_Witness ==
  /\ outbound # None
  /\ outbound[1].call = "get_training_status"
  /\ outbound[1].answer = "completed"
  /\ \E j \in jobs :
       /\ j.id = outbound[1].job
       /\ j.status = "completed"
       /\ Cardinality(For(broker, "deploy_model", j.id)) = 1

\* the training runs started or about to start
TrainingRuns ==
  Cardinality(jobs)
    + Cardinality({i \in 1..Len(broker) : broker[i].name = "trigger_training"})

\* C30: the automatic training is triggered only when at least
\* AUTO_TRAINING_THRESHOLD uploaded samples have not been used for a
\* training yet: every training run triggered has its own
\* AUTO_TRAINING_THRESHOLD uploaded samples.
C30_TrainingNeedsNewSamples ==
  TrainingRuns * AUTO_TRAINING_THRESHOLD <= UploadedCount

====
